---- MODULE Spec2Model ----
(***************************************************************************)
(* The PDF subsystem of MLResearchCopilot: the Downloader                  *)
(* (pdf_management/downloader.py), the Cache Manager                       *)
(* (pdf_management/cache_manager.py) and the Processor                     *)
(* (pdf_management/pdf_processor.py) over one cache directory; and the     *)
(* Retriever (retrieval/retriever.py) over the Source Manager              *)
(* (retrieval/paper_sources.py).                                           *)
(*                                                                         *)
(* The directory holds the artifacts (files) and metadata.json             *)
(* (metadata_file).  Two Cache Manager objects exist on it: "A" is the one *)
(* the Processor owns (pdf_processor.py:29), "B" is a separate one as in   *)
(* examples/pdf_integration_example.py:28.  Every method is one action.    *)
(* Time is counted in whole days.                                          *)
(***************************************************************************)
EXTENDS Integers, Sequences, FiniteSets, TLC

VARIABLES
    files,           \* the cache directory: file name -> content
    metadata_file,   \* metadata.json: paper_id -> dict
    metadata_cache,  \* per Cache Manager object: paper_id -> CacheMetadata
    max_retries,     \* PDFDownloader.max_retries
    download_stats,  \* PDFDownloader.download_stats
    llm_client,      \* PDFProcessor.llm_client is set
    now,             \* the day datetime.now() falls on
    ops,             \* number of steps taken so far (calls made, days passed)
    last,            \* the last call: its arguments, its result, what it did
    max_workers,     \* PDFDownloader.max_workers
    batch_papers,    \* download_papers_batch: the papers argument
    main,            \* download_papers_batch: where the calling thread is, and
                     \* the files the directory held when it was called
    tasks,           \* download_papers_batch: the futures, one per submitted paper
    results,         \* download_papers_batch: the results dict
    returned,        \* download_papers_batch: the dict it returned
    catalog,         \* what the upstream catalogs answer, and the BM25 scores
    found            \* Retriever.search: its arguments and the dict it returned

batchVars == <<max_workers, batch_papers, main, tasks, results, returned>>

searchVars == <<catalog, found>>

vars == <<files, metadata_file, metadata_cache, max_retries, download_stats,
          llm_client, now, ops, last, batchVars, searchVars>>

----------------------------------------------------------------------------
\* Bounds of the model

MaxDay == 1
MaxOps == 3
MaxRetries == 3
MaxAgeBound == 0
MaxBatch == 2
MaxWorkers == 2
MaxBatchRetries == 1
MaxHits == 1
MaxSections == 2
MaxDocs == 2
MaxPool == 3

----------------------------------------------------------------------------
\* Values

Managers == {"A", "B"}

Urls == {"u1", "u2"}

\* a paper dict whose "pdf_url" is None (paper_sources.py:91 leaves it so when the
\* feed entry has no PDF link); "" is a paper dict without the key
NullUrl == "None"

\* hashlib.md5(url.encode()).hexdigest()[:8]; md5 of the empty string is d41d8cd9...
md5_8(url) ==
    CASE url = "u1" -> "h1"
      [] url = "u2" -> "h2"
      [] OTHER    -> "d41d8cd9"

PaperIds == {md5_8(u) : u \in Urls}

\* None for a date
NoDate == -1

EmptyDict == [x \in {} |-> ""]

\* dict.update(new) on old
DictUpdate(old, new) == new @@ old

\* dict.get(key) with None written ""
DictGet(d, key) == IF key \in DOMAIN d THEN d[key] ELSE ""

\* del d[key]
DictDel(d, key) == [x \in DOMAIN d \ {key} |-> d[x]]

----------------------------------------------------------------------------
\* The file system

exists(fs, path) == path \in DOMAIN fs

\* st_size / os.path.getsize of a content
getsize(content) == IF content = "full" THEN 2 ELSE 1

\* hashlib digest of a file content
_calculate_file_hash(content) == "sha256:" \o content

----------------------------------------------------------------------------
\* CacheMetadata

CacheMetadata(paper_id, url, file_path, today) ==
    [paper_id        |-> paper_id,
     url             |-> url,
     file_path       |-> file_path,
     downloaded_date |-> today,
     file_size       |-> 0,
     file_hash       |-> "",
     version         |-> 1,
     status          |-> "cached",
     extraction_date |-> NoDate,
     metadata        |-> EmptyDict]

to_dict(meta) ==
    [paper_id        |-> meta.paper_id,
     url             |-> meta.url,
     file_path       |-> meta.file_path,
     downloaded_date |-> meta.downloaded_date,
     file_size       |-> meta.file_size,
     file_hash       |-> meta.file_hash,
     version         |-> meta.version,
     status          |-> meta.status,
     extraction_date |-> meta.extraction_date,
     metadata        |-> meta.metadata]

\* the constructor stamps downloaded_date; from_dict copies every field but that one
from_dict(data, today) ==
    [CacheMetadata(data.paper_id, data.url, data.file_path, today) EXCEPT
        !.file_size       = data.file_size,
        !.file_hash       = data.file_hash,
        !.version         = data.version,
        !.status          = data.status,
        !.extraction_date = data.extraction_date,
        !.metadata        = data.metadata]

----------------------------------------------------------------------------
\* CacheManager.  A manager is the pair st = [cache, file, fs]: its
\* metadata_cache, the metadata.json it writes and the directory it works on.

_load_metadata(file, today) ==
    [paper_id \in DOMAIN file |-> from_dict(file[paper_id], today)]

_save_metadata(cache) ==
    [paper_id \in DOMAIN cache |-> to_dict(cache[paper_id])]

get_cache_path(paper_id) == paper_id \o ".pdf"

has_cached_pdf(cache, fs, paper_id) ==
    IF paper_id \in DOMAIN cache
    THEN exists(fs, get_cache_path(paper_id))
    ELSE FALSE

register_pdf(st, paper_id, url, file_path, file_size, today) ==
    LET m0 == [CacheMetadata(paper_id, url, file_path, today) EXCEPT
                  !.file_size = file_size]
        metadata == IF exists(st.fs, file_path)
                    THEN [m0 EXCEPT !.file_hash = _calculate_file_hash(st.fs[file_path])]
                    ELSE m0
        cache == (paper_id :> metadata) @@ st.cache
    IN  [st EXCEPT !.cache = cache, !.file = _save_metadata(cache)]

get_metadata(cache, paper_id) == DictGet(cache, paper_id)

\* update_metadata as it would be without its closing _save_metadata()
update_metadata_unsaved(st, paper_id, status, metadata, extraction_date) ==
    IF paper_id \in DOMAIN st.cache
    THEN LET meta == st.cache[paper_id]
             m1   == IF status # "" THEN [meta EXCEPT !.status = status] ELSE meta
             m2   == IF metadata # EmptyDict
                     THEN [m1 EXCEPT !.metadata = DictUpdate(@, metadata)]
                     ELSE m1
             m3   == IF extraction_date # NoDate
                     THEN [m2 EXCEPT !.extraction_date = extraction_date]
                     ELSE m2
         IN  [st EXCEPT !.cache = [st.cache EXCEPT ![paper_id] = m3]]
    ELSE st

\* status "" is None, metadata EmptyDict is None or {}, extraction_date NoDate is None
update_metadata(st, paper_id, status, metadata, extraction_date) ==
    IF paper_id \in DOMAIN st.cache
    THEN LET meta  == st.cache[paper_id]
             m1    == IF status # "" THEN [meta EXCEPT !.status = status] ELSE meta
             m2    == IF metadata # EmptyDict
                      THEN [m1 EXCEPT !.metadata = DictUpdate(@, metadata)]
                      ELSE m1
             m3    == IF extraction_date # NoDate
                      THEN [m2 EXCEPT !.extraction_date = extraction_date]
                      ELSE m2
             cache == [st.cache EXCEPT ![paper_id] = m3]
         IN  [st EXCEPT !.cache = cache, !.file = _save_metadata(cache)]
    ELSE st

\* locked: the files the file system refuses to remove (unlink raises)
delete_cached_pdf(st, paper_id, locked) ==
    LET file_path == get_cache_path(paper_id)
        fs == IF exists(st.fs, file_path) /\ file_path \notin locked
              THEN DictDel(st.fs, file_path)
              ELSE st.fs
    IN  IF paper_id \in DOMAIN st.cache
        THEN LET cache == DictDel(st.cache, paper_id)
             IN  [st EXCEPT !.fs = fs, !.cache = cache, !.file = _save_metadata(cache)]
        ELSE [st EXCEPT !.fs = fs]

\* total_size of get_cache_stats, in bytes
total_size(cache, fs) ==
    LET RECURSIVE Sum(_)
        Sum(S) == IF S = {} THEN 0
                  ELSE LET p == CHOOSE p \in S : TRUE
                       IN  getsize(fs[get_cache_path(p)]) + Sum(S \ {p})
    IN  Sum({p \in DOMAIN cache : exists(fs, get_cache_path(p))})

get_cache_stats(cache, fs) ==
    [total_papers     |-> Cardinality(DOMAIN cache),
     cached_papers    |-> Cardinality({p \in DOMAIN cache : exists(fs, get_cache_path(p))}),
     extracted_papers |-> Cardinality({p \in DOMAIN cache :
                              /\ exists(fs, get_cache_path(p))
                              /\ cache[p].status = "extracted"}),
     total_size       |-> total_size(cache, fs)]

\* the papers cleanup selects: those whose age exceeds max_age_days
papers_to_delete(cache, max_age_days, today) ==
    {p \in DOMAIN cache : today - cache[p].downloaded_date > max_age_days}

\* cleanup deletes the selected papers one by one; the size check only sorts them
RECURSIVE delete_all(_, _, _)
delete_all(st, papers, locked) ==
    IF papers = {} THEN st
    ELSE LET p == CHOOSE p \in papers : TRUE
         IN  delete_all(delete_cached_pdf(st, p, locked), papers \ {p}, locked)

cleanup(st, max_age_days, max_size, today, locked) ==
    delete_all(st, papers_to_delete(st.cache, max_age_days, today), locked)

----------------------------------------------------------------------------
\* PDFDownloader

_generate_output_path(url) == "paper_" \o md5_8(url) \o ".pdf"

\* What one HTTP exchange can do:
\*   "ok"      a valid PDF arrives and is written whole
\*   "net"     requests.get / raise_for_status raises RequestException
\*   "invalid" neither the content-type nor the magic bytes say PDF
\*   "broken"  the body stream breaks after the file was opened and partly written
Outcomes == {"ok", "net", "invalid", "broken"}

\* str(e) of the PDFDownloadError an exchange ends in
error_of(outcome) ==
    CASE outcome = "net"     -> "request failed: net"
      [] outcome = "invalid" -> "invalid PDF content type"
      [] outcome = "broken"  -> "request failed: broken"
      [] OTHER               -> ""

\* One attempt: returns the result dict or raises PDFDownloadError
_download_with_retry(fs, url, output_path, outcome) ==
    CASE outcome = "ok" ->
           LET fs2 == (output_path :> "full") @@ fs
           IN  [raised |-> FALSE, fs |-> fs2, error |-> "",
                file_size |-> getsize(fs2[output_path])]
      [] outcome \in {"net", "invalid"} ->
           [raised |-> TRUE, fs |-> fs, error |-> error_of(outcome), file_size |-> 0]
      [] OTHER ->
           [raised |-> TRUE, fs |-> (output_path :> "partial") @@ fs,
            error |-> error_of(outcome), file_size |-> 0]

\* a linear backoff in place of the exponential one
wait_time_linear(attempt) == 2 * attempt

\* the wait before the retry that follows failed attempt number `attempt`
wait_time(attempt) == 2 ^ attempt

\* a sleep after every failed attempt, the last one included
sleeps_after_every(attempt, retries) == attempt < retries

\* whether a sleep follows failed attempt number `attempt`
sleeps_after(attempt, retries) == attempt < retries - 1

\* The state a download_paper call threads through its loop: the directory, the
\* stats, the result dict, and what it did (requests made, sleeps taken).
DownloadStart(fs, stats, url) ==
    [fs |-> fs, stats |-> stats,
     result |-> [success |-> FALSE, url |-> url, file_path |-> "", file_size |-> 0,
                 error |-> ""],
     requests |-> 0, sleeps |-> <<>>]

\* for attempt in range(self.max_retries), from `attempt` on; script[i] is what
\* the endpoint does on the i-th request of this call
RECURSIVE retry_loop(_, _, _, _, _, _)
retry_loop(d, attempt, url, output_path, script, retries) ==
    IF attempt >= retries
    THEN [d EXCEPT !.stats.failed = @ + 1, !.result.success = FALSE]
    ELSE LET r == _download_with_retry(d.fs, url, output_path, script[attempt + 1])
         IN  IF ~r.raised
             THEN [d EXCEPT
                     !.fs = r.fs,
                     !.requests = @ + 1,
                     !.result = [success |-> TRUE, url |-> url, file_path |-> output_path,
                                 file_size |-> r.file_size, error |-> ""],
                     !.stats.successful = @ + 1,
                     !.stats.total_bytes = @ + r.file_size]
             ELSE retry_loop(
                     [d EXCEPT
                         !.fs = r.fs,
                         !.requests = @ + 1,
                         !.result.error = r.error,
                         !.sleeps = IF sleeps_after(attempt, retries)
                                    THEN Append(@, wait_time(attempt))
                                    ELSE @],
                     attempt + 1, url, output_path, script, retries)

\* download_paper without the check for an existing destination file
download_paper_no_skip(fs, stats, url, output_path, script, retries) ==
    retry_loop(DownloadStart(fs, stats, url), 0, url, output_path, script, retries)

download_paper(fs, stats, url, output_path, script, retries) ==
    LET d == DownloadStart(fs, stats, url)
    IN  IF exists(fs, output_path)
        THEN [d EXCEPT !.result.success = TRUE,
                       !.result.file_path = output_path,
                       !.result.file_size = getsize(fs[output_path])]
        ELSE retry_loop(d, 0, url, output_path, script, retries)

----------------------------------------------------------------------------
\* PDFParser, as the Processor sees it

\* extract_text returns pages, returns no page, or a later parsing step raises
ParseOutcomes == {"pages", "nopages", "raise"}

\* what the LLM collaborator answers when it is called ("fail": the call raises)
LLMAnswers == {"a1", "fail"}

\* An ExtractedInfo object, the dict made of it, and None
ExtractedInfo(fields) == [form |-> "ExtractedInfo", fields |-> fields]
NoInfo == [form |-> "None", fields |-> ""]

\* extract_key_information: the LLM's fields when a client is set and answers,
\* the local heuristic's otherwise
extract_key_information(llm, answer) ==
    IF llm /\ answer # "fail"
    THEN ExtractedInfo("llm:" \o answer)
    ELSE ExtractedInfo("local")

----------------------------------------------------------------------------
\* PDFProcessor

_convert_to_dict(obj) ==
    IF obj.form = "dict" THEN obj
    ELSE IF obj.form = "ExtractedInfo" THEN [form |-> "dict", fields |-> obj.fields]
    ELSE [form |-> "str", fields |-> obj.fields]

\* metadata.metadata.get("extracted_info")
stored_info(meta) ==
    IF "extracted_info" \in DOMAIN meta.metadata
    THEN meta.metadata["extracted_info"]
    ELSE NoInfo

\* the dict process_paper returns; pdf_path "" is None
ProcessResult(success, paper_id, url, pdf_path, info, error) ==
    [success |-> success, paper_id |-> paper_id, url |-> url, path |-> pdf_path,
     file_size |-> 0, extracted_info |-> info, error |-> error, raises |-> ""]

\* the call does not return: the exception leaves it
Raises(url, exception) ==
    [ProcessResult(FALSE, "", url, "", NoInfo, "") EXCEPT !.raises = exception]

\* what a call did besides its result
NoEffects == [downloads |-> 0, requests |-> 0, sleeps |-> <<>>, parses |-> 0,
              llm_calls |-> 0, registers |-> 0]

\* w = [cache, file, fs, stats]: the Processor's Cache Manager, metadata.json, the
\* directory and the Downloader's stats.  Returns the new w, the result and the
\* effects.
process_paper(w, url, force_reprocess, script, parse, answer, llm, retries, today) ==
    LET paper_id == md5_8(url)
        cached_path == get_cache_path(paper_id)
        metadata == get_metadata(w.cache, paper_id)
    IN
    IF url = NullUrl
    THEN [w |-> w, fx |-> NoEffects, ret |-> Raises(url, "AttributeError")]
    ELSE IF url = ""
    THEN [w |-> w, fx |-> NoEffects,
          ret |-> ProcessResult(FALSE, paper_id, url, "", NoInfo, "missing paper_id or url")]
    ELSE IF /\ ~force_reprocess
            /\ has_cached_pdf(w.cache, w.fs, paper_id)
            /\ metadata.status = "extracted"
    THEN [w |-> w, fx |-> NoEffects,
          ret |-> ProcessResult(TRUE, paper_id, url, cached_path, stored_info(metadata), "")]
    ELSE
    LET d  == download_paper(w.fs, w.stats, url, _generate_output_path(url), script, retries)
        fx1 == [NoEffects EXCEPT !.downloads = 1, !.requests = d.requests,
                                 !.sleeps = d.sleeps]
    IN
    IF ~d.result.success
    THEN [w |-> [w EXCEPT !.fs = d.fs, !.stats = d.stats], fx |-> fx1,
          ret |-> ProcessResult(FALSE, paper_id, url, "", NoInfo,
                                "download failed: " \o d.result.error)]
    ELSE
    LET pdf_path == d.result.file_path
        st0 == [cache |-> w.cache, file |-> w.file, fs |-> d.fs]
        st1 == register_pdf(st0, paper_id, url, pdf_path, d.result.file_size, today)
        st2 == update_metadata(st1, paper_id, "processing", EmptyDict, NoDate)
        w2  == [cache |-> st2.cache, file |-> st2.file, fs |-> st2.fs, stats |-> d.stats]
        fx2 == [fx1 EXCEPT !.registers = 1, !.parses = 1]
    IN
    IF parse = "nopages"
    THEN [w |-> w2, fx |-> fx2,
          ret |-> ProcessResult(FALSE, paper_id, url, pdf_path, NoInfo,
                                "can't parse PDF text")]
    ELSE IF parse = "raise"
    THEN [w |-> w2, fx |-> fx2,
          ret |-> ProcessResult(FALSE, paper_id, url, "", NoInfo, "process failed")]
    ELSE
    LET extracted_info == extract_key_information(llm, answer)
        st3 == update_metadata(st2, paper_id, "extracted",
                   [extracted_info     |-> _convert_to_dict(extracted_info),
                    citations          |-> [form |-> "list", fields |-> "citations"],
                    page_count         |-> [form |-> "int", fields |-> "pages"],
                    extracted_sections |-> [form |-> "int", fields |-> "sections"]],
                   today)
    IN  [w |-> [w2 EXCEPT !.cache = st3.cache, !.file = st3.file],
         fx |-> [fx2 EXCEPT !.llm_calls = IF llm THEN 1 ELSE 0],
         ret |-> ProcessResult(TRUE, paper_id, url, pdf_path, extracted_info, "")]

\* results of process_papers_batch before the loop; raises and log are not in
\* the dict: the exception that left the call, and each paper's own result in
\* the order of the papers
BatchResults(n) ==
    [total |-> n, successful |-> 0, failed |-> 0, papers |-> EmptyDict,
     raises |-> "", log |-> <<>>]

\* the loop of process_papers_batch from the i-th paper on; envs[i] is what the
\* endpoint, the parser and the LLM do for the i-th paper
RECURSIVE batch_loop(_, _, _, _, _, _, _, _, _)
batch_loop(w, papers, force_reprocess, envs, llm, retries, today, i, batch_results) ==
    IF i > Len(papers)
    THEN [w |-> w, results |-> batch_results]
    ELSE
    LET after(r) ==
            IF r.ret.raises # ""
            THEN [w |-> r.w, results |-> [batch_results EXCEPT !.raises = r.ret.raises]]
            ELSE batch_loop(r.w, papers, force_reprocess, envs, llm, retries, today, i + 1,
                    [batch_results EXCEPT
                        !.papers = (r.ret.paper_id :> r.ret) @@ @,
                        !.successful = IF r.ret.success THEN @ + 1 ELSE @,
                        !.failed = IF r.ret.success THEN @ ELSE @ + 1,
                        !.log = Append(@, r.ret)])
    IN  CHOOSE out \in {after(r) : r \in {process_paper(w, papers[i], force_reprocess,
                                                        envs[i][1], envs[i][2], envs[i][3],
                                                        llm, retries, today)}} : TRUE

process_papers_batch(w, papers, force_reprocess, envs, llm, retries, today) ==
    batch_loop(w, papers, force_reprocess, envs, llm, retries, today, 1,
               BatchResults(Len(papers)))

----------------------------------------------------------------------------
\* The calls

\* max_retries: int = 3 of PDFDownloader.__init__, which the Processor's
\* Downloader is built with
DEFAULT_MAX_RETRIES == 3

\* Endpoint behaviours: what the endpoint does on each request of one call.  A
\* call stops at the first "ok", so what follows it is written "ok".
Scripts(retries) ==
    {s \in [1..retries -> Outcomes] :
        \A i, j \in 1..retries : (i < j /\ s[i] = "ok") => s[j] = "ok"}

\* the number of failing exchanges a script starts with
LeadingFailures(script) ==
    Cardinality({i \in DOMAIN script : \A j \in 1..i : script[j] # "ok"})

\* the last exchange a call following the script gets to
FinalOutcome(script) ==
    IF LeadingFailures(script) < Len(script)
    THEN "ok"
    ELSE script[Len(script)]

\* Endpoint behaviours tried under the Processor: success at once, success after
\* one failure, failure throughout without and with a truncated file left behind
ProcessScripts(retries) ==
    {[i \in 1..retries |-> "ok"],
     [i \in 1..retries |-> IF i = 1 THEN "invalid" ELSE "ok"],
     [i \in 1..retries |-> "net"],
     [i \in 1..retries |-> "broken"]}

NoCall ==
    [op |-> "none", mgr |-> "", paper_id |-> "", url |-> "", force |-> FALSE,
     failures |-> 0, final |-> "", max_age_days |-> 0, locked |-> {}, today |-> 0,
     ret |-> ProcessResult(FALSE, "", "", "", NoInfo, ""), fx |-> NoEffects,
     papers |-> <<>>, batch |-> BatchResults(0),
     query |-> <<>>, failing |-> {}, all |-> [raised |-> FALSE, results |-> EmptyDict],
     sections |-> <<>>, answer |-> [kind |-> "", broken |-> EmptyDict, response |-> <<>>],
     info |-> NoInfo,
     exchange |-> [network |-> "", content_type |-> "", content |-> <<>>],
     scores |-> <<>>, pc |-> "", steps |-> <<>>,
     key |-> "", embeddings |-> <<>>, unique |-> <<>>]

\* the manager object m as the triple its methods work on
Manager(m) == [cache |-> metadata_cache[m], file |-> metadata_file, fs |-> files]

\* the manager m after a method returned st
Becomes(m, st) ==
    /\ metadata_cache' = [metadata_cache EXCEPT ![m] = st.cache]
    /\ metadata_file' = st.file
    /\ files' = st.fs

Called == ops < MaxOps /\ ops' = ops + 1

\* max_workers: int = 4 of PDFDownloader.__init__
DEFAULT_MAX_WORKERS == 4

\* no download_papers_batch call has been made
NoBatch ==
    /\ batch_papers = <<>>
    /\ main = [pc |-> "idle", i |-> 0, listing |-> {}]
    /\ tasks = <<>>
    /\ results = EmptyDict
    /\ returned = EmptyDict

\* no Retriever has been built
NoSearch ==
    /\ catalog = EmptyDict
    /\ found = EmptyDict

Init ==
    /\ files = EmptyDict
    /\ metadata_file = EmptyDict
    /\ metadata_cache = [m \in Managers |-> EmptyDict]
    /\ max_retries = DEFAULT_MAX_RETRIES
    /\ download_stats = [total |-> 0, successful |-> 0, failed |-> 0, total_bytes |-> 0]
    /\ llm_client \in BOOLEAN
    /\ now = 0
    /\ ops = 0
    /\ last = NoCall
    /\ max_workers = DEFAULT_MAX_WORKERS
    /\ NoBatch
    /\ NoSearch

\* a day passes
Tick ==
    /\ Called
    /\ now < MaxDay
    /\ now' = now + 1
    /\ last' = [NoCall EXCEPT !.op = "tick", !.today = now + 1]
    /\ UNCHANGED <<batchVars, searchVars, files, metadata_file, metadata_cache, max_retries, download_stats,
                   llm_client>>

\* CacheManager(cache_dir): a new object replaces m
Construct(m) ==
    /\ Called
    /\ metadata_cache' = [metadata_cache EXCEPT ![m] = _load_metadata(metadata_file, now)]
    /\ last' = [NoCall EXCEPT !.op = "construct", !.mgr = m, !.today = now]
    /\ UNCHANGED <<batchVars, searchVars, files, metadata_file, max_retries, download_stats, llm_client, now>>

\* a caller writes an artifact into the directory itself (tests/test_pdf_module.py:197)
WriteArtifact(paper_id) ==
    /\ Called
    /\ files' = (get_cache_path(paper_id) :> "full") @@ files
    /\ last' = [NoCall EXCEPT !.op = "write", !.paper_id = paper_id, !.today = now]
    /\ UNCHANGED <<batchVars, searchVars, metadata_file, metadata_cache, max_retries, download_stats,
                   llm_client, now>>

Register(m, url, file_path) ==
    /\ Called
    /\ Becomes(m, register_pdf(Manager(m), md5_8(url), url, file_path,
                               getsize("full"), now))
    /\ last' = [NoCall EXCEPT !.op = "register", !.mgr = m, !.paper_id = md5_8(url),
                              !.url = url, !.today = now]
    /\ UNCHANGED <<batchVars, searchVars, max_retries, download_stats, llm_client, now>>

\* the update_metadata calls tried: (status, metadata, extraction_date)
Updates(today) ==
    {<<status, EmptyDict, NoDate>> : status \in {"cached", "processing", "extracted"}}
    \cup {<<"extracted",
            [extracted_info |-> [form |-> "dict", fields |-> "manual"]], today>>,
          <<"", [citations |-> [form |-> "list", fields |-> "manual"]], NoDate>>}

UpdateMetadata(m, paper_id, u) ==
    /\ Called
    /\ Becomes(m, update_metadata(Manager(m), paper_id, u[1], u[2], u[3]))
    /\ last' = [NoCall EXCEPT !.op = "update", !.mgr = m, !.paper_id = paper_id,
                              !.today = now]
    /\ UNCHANGED <<batchVars, searchVars, max_retries, download_stats, llm_client, now>>

Delete(m, paper_id, locked) ==
    /\ Called
    /\ Becomes(m, delete_cached_pdf(Manager(m), paper_id, locked))
    /\ last' = [NoCall EXCEPT !.op = "delete", !.mgr = m, !.paper_id = paper_id,
                              !.locked = locked, !.today = now]
    /\ UNCHANGED <<batchVars, searchVars, max_retries, download_stats, llm_client, now>>

Cleanup(m, max_age_days, locked) ==
    /\ Called
    /\ Becomes(m, cleanup(Manager(m), max_age_days, 0, now, locked))
    /\ last' = [NoCall EXCEPT !.op = "cleanup", !.mgr = m, !.max_age_days = max_age_days,
                              !.locked = locked, !.today = now]
    /\ UNCHANGED <<batchVars, searchVars, max_retries, download_stats, llm_client, now>>

\* PDFDownloader.download_paper(url)
Fetch(url, script) ==
    /\ Called
    /\ LET d == download_paper(files, download_stats, url, _generate_output_path(url),
                               script, max_retries)
       IN  /\ files' = d.fs
           /\ download_stats' = d.stats
           /\ last' = [NoCall EXCEPT
                         !.op = "fetch", !.url = url, !.today = now,
                         !.failures = LeadingFailures(script),
                         !.final = FinalOutcome(script),
                         !.ret = [@ EXCEPT !.success = d.result.success,
                                           !.url = url,
                                           !.path = d.result.file_path,
                                           !.file_size = d.result.file_size,
                                           !.error = d.result.error],
                         !.fx = [@ EXCEPT !.downloads = 1, !.requests = d.requests,
                                          !.sleeps = d.sleeps]]
    /\ UNCHANGED <<batchVars, searchVars, metadata_file, metadata_cache, max_retries, llm_client, now>>

\* PDFProcessor.process_paper(paper, force_reprocess) on the Processor's manager "A"
ProcessPaper(url, force_reprocess, script, parse, answer) ==
    /\ Called
    /\ LET r == process_paper([cache |-> metadata_cache["A"], file |-> metadata_file,
                               fs |-> files, stats |-> download_stats],
                              url, force_reprocess, script, parse, answer,
                              llm_client, max_retries, now)
       IN  /\ metadata_cache' = [metadata_cache EXCEPT !["A"] = r.w.cache]
           /\ metadata_file' = r.w.file
           /\ files' = r.w.fs
           /\ download_stats' = r.w.stats
           /\ last' = [NoCall EXCEPT
                         !.op = "process", !.mgr = "A", !.paper_id = md5_8(url),
                         !.url = url, !.force = force_reprocess,
                         !.today = now, !.ret = r.ret, !.fx = r.fx]
    /\ UNCHANGED <<batchVars, searchVars, max_retries, llm_client, now>>

\* The environment is consulted only as far as a process_paper call gets: the
\* endpoint when a download is attempted, the parser when the download succeeded,
\* the LLM when pages were parsed and a client is set.
\* force_reprocess is read only when the cache already answers for the paper
ReadsForce(url) ==
    /\ has_cached_pdf(metadata_cache["A"], files, md5_8(url))
    /\ metadata_cache["A"][md5_8(url)].status = "extracted"

AsksEndpoint(url, force_reprocess) ==
    /\ url \notin {"", NullUrl}
    /\ ~(~force_reprocess /\ ReadsForce(url))
    /\ ~exists(files, _generate_output_path(url))

AsksParser(url, force_reprocess, script) ==
    /\ url \notin {"", NullUrl}
    /\ ~(~force_reprocess /\ ReadsForce(url))
    /\ \/ exists(files, _generate_output_path(url))
       \/ \E i \in 1..max_retries : script[i] = "ok"

ForceInputs(url) == IF ReadsForce(url) THEN BOOLEAN ELSE {FALSE}

\* the files an unlink can fail on are among those that exist
LockInputs(paths) ==
    IF \E f \in paths : exists(files, f) THEN {{}, paths} ELSE {{}}

EndpointInputs(url, force_reprocess) ==
    IF AsksEndpoint(url, force_reprocess)
    THEN ProcessScripts(max_retries)
    ELSE {[i \in 1..max_retries |-> "ok"]}

ParserInputs(url, force_reprocess, script) ==
    IF AsksParser(url, force_reprocess, script) THEN ParseOutcomes ELSE {"pages"}

LLMInputs(url, force_reprocess, script, parse) ==
    IF AsksParser(url, force_reprocess, script) /\ parse = "pages" /\ llm_client
    THEN LLMAnswers
    ELSE {"none"}

Next ==
    \/ Tick
    \/ Construct("A")
    \/ \E p \in PaperIds : WriteArtifact(p)
    \/ \E u \in Urls : Register("A", u, get_cache_path(md5_8(u)))
    \/ \E p \in PaperIds : \E u \in Updates(now) : UpdateMetadata("A", p, u)
    \/ \E p \in PaperIds :
          \E locked \in LockInputs({get_cache_path(p)}) : Delete("A", p, locked)
    \/ \E a \in 0..MaxAgeBound :
          \E locked \in LockInputs({get_cache_path(p) : p \in PaperIds}) :
             Cleanup("A", a, locked)
    \/ \E u \in Urls \cup {"", NullUrl} : \E f \in ForceInputs(u) :
          \E s \in EndpointInputs(u, f) :
             \E parse \in ParserInputs(u, f, s) :
                \E a \in LLMInputs(u, f, s, parse) :
                   ProcessPaper(u, f, s, parse, a)

Spec == Init /\ [][Next]_vars

\* The same calls on a directory where a caller has written the artifact of u1 at
\* its cache path and registered it through the Processor's manager
\* (tests/test_pdf_module.py:195-207)
InitRegistered ==
    /\ max_retries = DEFAULT_MAX_RETRIES
    /\ download_stats = [total |-> 0, successful |-> 0, failed |-> 0, total_bytes |-> 0]
    /\ llm_client \in BOOLEAN
    /\ now = 0
    /\ ops = 0
    /\ last = NoCall
    /\ max_workers = DEFAULT_MAX_WORKERS
    /\ NoBatch
    /\ NoSearch
    /\ LET paper_id == md5_8("u1")
           written == [cache |-> EmptyDict, file |-> EmptyDict,
                       fs |-> (get_cache_path(paper_id) :> "full")]
           st == register_pdf(written, paper_id, "u1", get_cache_path(paper_id),
                              getsize("full"), now)
       IN  /\ metadata_cache = [m \in Managers |-> IF m = "A" THEN st.cache ELSE EmptyDict]
           /\ metadata_file = st.file
           /\ files = st.fs

SpecRegistered == InitRegistered /\ [][Next]_vars

----------------------------------------------------------------------------
\* Two Cache Managers on one cache directory: "A", the one the Processor owns, and
\* "B", constructed beside it (examples/pdf_integration_example.py:27-28)

NextShared ==
    \/ \E m \in Managers : Construct(m)
    \/ \E m \in Managers : \E u \in Urls : Register(m, u, get_cache_path(md5_8(u)))
    \/ \E m \in Managers : \E p \in PaperIds : \E u \in Updates(now) :
          UpdateMetadata(m, p, u)

SpecShared == Init /\ [][NextShared]_vars

----------------------------------------------------------------------------
\* The Downloader alone, with any configured max_retries

RemoveFile(url) ==
    /\ Called
    /\ exists(files, _generate_output_path(url))
    /\ files' = DictDel(files, _generate_output_path(url))
    /\ last' = [NoCall EXCEPT !.op = "remove", !.url = url, !.today = now]
    /\ UNCHANGED <<batchVars, searchVars, metadata_file, metadata_cache, max_retries, download_stats,
                   llm_client, now>>

InitFetch ==
    /\ files = EmptyDict
    /\ metadata_file = EmptyDict
    /\ metadata_cache = [m \in Managers |-> EmptyDict]
    /\ max_retries \in 1..MaxRetries
    /\ download_stats = [total |-> 0, successful |-> 0, failed |-> 0, total_bytes |-> 0]
    /\ llm_client = FALSE
    /\ now = 0
    /\ ops = 0
    /\ last = NoCall
    /\ max_workers = DEFAULT_MAX_WORKERS
    /\ NoBatch
    /\ NoSearch

\* the endpoint is contacted only when the destination file does not exist
FetchInputs(url) ==
    IF exists(files, _generate_output_path(url))
    THEN {[i \in 1..max_retries |-> "ok"]}
    ELSE Scripts(max_retries)

NextFetch ==
    \/ \E u \in Urls : \E s \in FetchInputs(u) : Fetch(u, s)
    \/ \E u \in Urls : RemoveFile(u)

SpecFetch == InitFetch /\ [][NextFetch]_vars

----------------------------------------------------------------------------
\* PDFDownloader.download_papers_batch.  The calling thread submits one
\* download_paper task per paper to a ThreadPoolExecutor(max_workers), collects
\* the futures as they complete and returns after the pool has shut down.  The
\* worker threads run download_paper statement by statement; a `+=` on
\* download_stats is a load followed by a store.

\* the order the URLs of a batch are listed in ("" is a missing URL)
UrlRank(url) ==
    CASE url = ""   -> 0
      [] url = "u1" -> 1
      [] OTHER      -> 2

\* the papers arguments tried: up to n papers, the i-th with identifier p<i>,
\* listed by URL (the identifiers are interchangeable)
Batches(n) ==
    UNION {{[i \in 1..k |-> [paper_id |-> "p" \o ToString(i), url |-> u[i]]] :
               u \in {v \in [1..k -> Urls \cup {""}] :
                         \A i, j \in 1..k : i < j => UrlRank(v[i]) <= UrlRank(v[j])}} :
           k \in 0..n}

\* a future just submitted: download_paper(url, output_path) not yet started
NewTask(paper_id, url) ==
    [paper_id |-> paper_id, url |-> url, output_path |-> _generate_output_path(url),
     pc |-> "queued", attempt |-> 0, loaded |-> 0, fetched |-> FALSE, raised |-> FALSE,
     result |-> DownloadStart(files, download_stats, url).result]

\* the tasks a worker thread is running
Running(ts) == {t \in DOMAIN ts : ts[t].pc \notin {"queued", "done", "collected"}}

\* a pool that starts a thread for every task submitted
can_start_unbounded(ts, t, width) ==
    \A s \in DOMAIN ts : s < t => ts[s].pc # "queued"

\* the pool runs at most `width` tasks and takes them in submission order
can_start(ts, t, width) ==
    /\ Cardinality(Running(ts)) < width
    /\ \A s \in DOMAIN ts : s < t => ts[s].pc # "queued"

\* as_completed(futures) is exhausted and the with block has shut the pool down
all_completed(ts) == \A t \in DOMAIN ts : ts[t].pc = "collected"

\* the counter a `download_stats[key] += delta` of a task at pc works on
StatKey(pc) ==
    CASE pc \in {"load_successful", "store_successful"} -> "successful"
      [] pc \in {"load_bytes", "store_bytes"}           -> "total_bytes"
      [] OTHER                                          -> "failed"

\* what the future of a finished task gives the collecting loop
future_result(task) ==
    IF task.raised
    THEN [success |-> FALSE, error |-> task.result.error]
    ELSE task.result

batchRest == <<metadata_file, metadata_cache, max_retries, llm_client, now, ops, last,
               max_workers, searchVars>>

BatchCall(ps) ==
    /\ main.pc = "idle"
    /\ batch_papers' = ps
    /\ download_stats' = [download_stats EXCEPT !.total = Len(ps)]
    /\ main' = [pc |-> IF Len(ps) = 0 THEN "collect" ELSE "submit", i |-> 1,
                listing |-> DOMAIN files]
    /\ tasks' = <<>>
    /\ results' = EmptyDict
    /\ UNCHANGED <<files, returned, batchRest>>

\* one turn of `for paper in papers`
Submit ==
    /\ main.pc = "submit"
    /\ LET paper == batch_papers[main.i]
       IN  IF paper.url = ""
           THEN /\ results' = (paper.paper_id :>
                                  [success |-> FALSE, error |-> "URL missing"]) @@ results
                /\ tasks' = tasks
           ELSE /\ tasks' = Append(tasks, NewTask(paper.paper_id, paper.url))
                /\ results' = results
    /\ main' = [main EXCEPT
                   !.pc = IF main.i = Len(batch_papers) THEN "collect" ELSE "submit",
                   !.i = main.i + 1]
    /\ UNCHANGED <<files, download_stats, batch_papers, returned, batchRest>>

\* a pool thread takes the task from the work queue
Start(t) ==
    /\ tasks[t].pc = "queued"
    /\ can_start(tasks, t, max_workers)
    /\ tasks' = [tasks EXCEPT ![t].pc = "check"]
    /\ UNCHANGED <<files, download_stats, batch_papers, main, results, returned, batchRest>>

\* download_paper: if os.path.exists(output_path)
CheckExists(t) ==
    /\ tasks[t].pc = "check"
    /\ tasks' = IF exists(files, tasks[t].output_path)
                THEN [tasks EXCEPT
                        ![t].pc = "done",
                        ![t].result = [@ EXCEPT
                            !.success = TRUE,
                            !.file_path = tasks[t].output_path,
                            !.file_size = getsize(files[tasks[t].output_path])]]
                ELSE [tasks EXCEPT ![t].pc = "attempt"]
    /\ UNCHANGED <<files, download_stats, batch_papers, main, results, returned, batchRest>>

\* What one exchange of a worker can do: succeed, fail on the network, break off
\* with a truncated file, or "crash": raise something that is no
\* PDFDownloadError (a progress callback, a malformed content-length), which
\* leaves download_paper and ends the task.
BatchOutcomes == {"ok", "net", "broken", "crash"}

\* download_paper: one turn of `for attempt in range(self.max_retries)`
Attempt(t, outcome) ==
    /\ tasks[t].pc = "attempt"
    /\ LET task == tasks[t]
           r == _download_with_retry(files, task.url, task.output_path, outcome)
       IN  IF outcome = "crash"
           THEN /\ tasks' = [tasks EXCEPT ![t].pc = "done", ![t].raised = TRUE,
                                           ![t].result.error = "crash"]
                /\ files' = files
           ELSE /\ files' = r.fs
                /\ tasks' =
                     IF ~r.raised
                     THEN [tasks EXCEPT
                             ![t].pc = "load_successful",
                             ![t].fetched = TRUE,
                             ![t].result = [success |-> TRUE, url |-> task.url,
                                            file_path |-> task.output_path,
                                            file_size |-> r.file_size, error |-> ""]]
                     ELSE [tasks EXCEPT
                             ![t].result.error = r.error,
                             ![t].attempt = @ + 1,
                             ![t].pc = IF task.attempt + 1 >= max_retries
                                       THEN "load_failed" ELSE "attempt"]
    /\ UNCHANGED <<download_stats, batch_papers, main, results, returned, batchRest>>

\* self.download_stats[key] += delta: the load
LoadStat(t) ==
    /\ tasks[t].pc \in {"load_successful", "load_bytes", "load_failed"}
    /\ tasks' = [tasks EXCEPT
                   ![t].loaded = download_stats[StatKey(tasks[t].pc)],
                   ![t].pc = CASE tasks[t].pc = "load_successful" -> "store_successful"
                               [] tasks[t].pc = "load_bytes"      -> "store_bytes"
                               [] OTHER                           -> "store_failed"]
    /\ UNCHANGED <<files, download_stats, batch_papers, main, results, returned, batchRest>>

\* self.download_stats[key] += delta: the store; download_paper then goes on to
\* the next statement or returns
StoreStat(t) ==
    /\ tasks[t].pc \in {"store_successful", "store_bytes", "store_failed"}
    /\ LET task == tasks[t]
           delta == IF task.pc = "store_bytes" THEN task.result.file_size ELSE 1
       IN  /\ download_stats' =
                 [download_stats EXCEPT ![StatKey(task.pc)] = task.loaded + delta]
           /\ tasks' = [tasks EXCEPT
                          ![t].loaded = 0,
                          ![t].result.success = (task.pc # "store_failed"),
                          ![t].pc = IF task.pc = "store_successful"
                                    THEN "load_bytes" ELSE "done"]
    /\ UNCHANGED <<files, batch_papers, main, results, returned, batchRest>>

\* one turn of `for future in as_completed(futures)`
Collect(t) ==
    /\ main.pc = "collect"
    /\ tasks[t].pc = "done"
    /\ results' = (tasks[t].paper_id :> future_result(tasks[t])) @@ results
    /\ tasks' = [tasks EXCEPT ![t].pc = "collected"]
    /\ UNCHANGED <<files, download_stats, batch_papers, main, returned, batchRest>>

\* the with block is left and the dict is returned
Return ==
    /\ main.pc = "collect"
    /\ all_completed(tasks)
    /\ returned' = [total       |-> download_stats.total,
                    successful  |-> download_stats.successful,
                    failed      |-> download_stats.failed,
                    total_bytes |-> download_stats.total_bytes,
                    results     |-> results]
    /\ main' = [main EXCEPT !.pc = "returned"]
    /\ UNCHANGED <<files, download_stats, batch_papers, tasks, results, batchRest>>

\* A Downloader that has or has not downloaded u1 before the batch call
InitBatch ==
    /\ \/ /\ files = EmptyDict
          /\ download_stats = [total |-> 0, successful |-> 0, failed |-> 0,
                               total_bytes |-> 0]
       \/ /\ files = (_generate_output_path("u1") :> "full")
          /\ download_stats = [total |-> 0, successful |-> 1, failed |-> 0,
                               total_bytes |-> getsize("full")]
    /\ metadata_file = EmptyDict
    /\ metadata_cache = [m \in Managers |-> EmptyDict]
    /\ max_retries = MaxBatchRetries
    /\ llm_client = FALSE
    /\ now = 0
    /\ ops = 0
    /\ last = NoCall
    /\ max_workers \in 1..MaxWorkers
    /\ NoBatch
    /\ NoSearch

NextBatch ==
    \/ \E ps \in Batches(MaxBatch) : BatchCall(ps)
    \/ Submit
    \/ \E t \in DOMAIN tasks : Start(t)
    \/ \E t \in DOMAIN tasks : CheckExists(t)
    \/ \E t \in DOMAIN tasks : \E o \in BatchOutcomes : Attempt(t, o)
    \/ \E t \in DOMAIN tasks : LoadStat(t)
    \/ \E t \in DOMAIN tasks : StoreStat(t)
    \/ \E t \in DOMAIN tasks : Collect(t)
    \/ Return

SpecBatch == InitBatch /\ [][NextBatch]_vars

----------------------------------------------------------------------------
\* Retrieval: the Source Manager and the Retriever (retrieval/paper_sources.py,
\* retrieval/retriever.py).  A title, an abstract or a query is written as the
\* sequence of its tokens, the list str.split(" ") makes of it: "" is <<"">>,
\* "GNN " is <<"GNN", "">>, and s + " " + t is s \o t.  None is <<>>.  A URL is
\* written the same way, as one token.

None == <<>>

\* bool(value) of a title, an abstract or a URL
Truthy(value) == value \notin {None, <<"">>}

\* str.lower()
lower(text) ==
    [i \in DOMAIN text |-> IF text[i] = "GNN" THEN "gnn"
                           ELSE IF text[i] = "BERT" THEN "bert" ELSE text[i]]

\* str.strip() as the arXiv and the web adapter apply it to a title
RECURSIVE strip(_)
strip(text) ==
    IF Len(text) > 1 /\ text[1] = "" THEN strip(Tail(text))
    ELSE IF Len(text) > 1 /\ text[Len(text)] = "" THEN strip(SubSeq(text, 1, Len(text) - 1))
    ELSE text

\* the dict an adapter makes of one catalog item
PaperDict(url, title, abstract, source) ==
    [url |-> url, title |-> title, abstract |-> abstract, source |-> source]

\* What the arXiv feed can hold: an entry, and an entry without <id> (url "").
\* _parse_arxiv_response strips title and summary and never leaves them None.
ArxivRecords ==
    {PaperDict(<<"a">>, strip(<<"GNN">>), strip(<<"scalability">>), "arxiv"),
     PaperDict(<<"">>, strip(<<"survey">>), strip(<<"GNN">>), "arxiv")}

\* What the Semantic Scholar API can hold: _format_paper copies title, abstract
\* and url as they come, a trailing blank and a JSON null included.
SemanticScholarRecords ==
    {PaperDict(<<"c">>, <<"GNN">>, <<"benchmarks">>, "semantic_scholar"),
     PaperDict(<<"d">>, <<"GNN", "">>, <<"scalability">>, "semantic_scholar"),
     PaperDict(<<"e">>, <<"BERT">>, None, "semantic_scholar")}

\* the sub-queries and the original query the Retriever is called with
SubQueries == {<<"GNN", "scalability">>, <<"gnn", "benchmarks">>}

OriginalQuery == <<"GNN", "benchmarks">>

\* sequences of at most n elements of S
SeqsUpTo(S, n) == UNION {[1..k -> S] : k \in 0..n}

\* the adapters PaperSourceManager.__init__ registers, and one registered by the
\* caller whose search raises
BuiltinSources == {"arxiv", "semantic_scholar", "huggingface", "web"}

RegisteredSources == BuiltinSources \cup {"custom"}

\* source.search(query, top_k): [raised, papers].  A built-in adapter catches
\* every exception and answers []; cat holds what the two catalogs answer.
source_search(cat, source_name, query) ==
    IF source_name = "custom" THEN [raised |-> TRUE, papers |-> <<>>]
    ELSE IF source_name \in DOMAIN cat /\ query \in DOMAIN cat[source_name]
    THEN [raised |-> FALSE, papers |-> cat[source_name][query]]
    ELSE [raised |-> FALSE, papers |-> <<>>]

\* source.search as search_all meets it.  failing holds the built-in adapters
\* whose request times out, answers a non-2xx status or cannot be parsed: the
\* adapter catches that itself and answers [].
adapter_search(cat, failing, source_name, query) ==
    IF source_name \in failing
    THEN [raised |-> FALSE, papers |-> <<>>]
    ELSE source_search(cat, source_name, query)

search_all_unguarded(cat, failing, query) ==
    LET raising == {name \in RegisteredSources :
                       adapter_search(cat, failing, name, query).raised}
    IN  [raised |-> raising # {},
         results |-> [name \in RegisteredSources \ raising |->
                         adapter_search(cat, failing, name, query).papers]]

\* PaperSourceManager.search_all: [raised, results]
search_all(cat, failing, query) ==
    [raised |-> FALSE,
     results |-> [name \in RegisteredSources |->
                     LET r == adapter_search(cat, failing, name, query)
                     IN  IF r.raised THEN <<>> ELSE r.papers]]

\* PaperSourceManager.search_specific
search_specific(cat, source_name, query) ==
    IF source_name \notin RegisteredSources
    THEN [raised |-> FALSE, papers |-> <<>>]
    ELSE source_search(cat, source_name, query)

\* Retriever._deduplicate: the loop from paper i on
RECURSIVE deduplicate_from(_, _, _, _, _)
deduplicate_from(pool, key, i, seen, deduped_papers) ==
    IF i > Len(pool) THEN deduped_papers
    ELSE LET value == pool[i][key]
         IN  IF Truthy(value) /\ value \notin seen
             THEN deduplicate_from(pool, key, i + 1, seen \cup {value},
                                   Append(deduped_papers, pool[i]))
             ELSE deduplicate_from(pool, key, i + 1, seen, deduped_papers)

_deduplicate(pool, key) == deduplicate_from(pool, key, 1, {}, <<>>)

\* BM25Okapi(tokenized_corpus).get_scores(tokenized_query) for one document.  Of
\* the BM25 formula the model keeps the term counts: a document scores the number
\* of times the query's tokens occur in it.  The idf weights and the length
\* normalisation, which depend on the whole corpus, are left out here; get_scores
\* further down is the whole formula, used where the values of the scores matter.
RECURSIVE get_score(_, _)
get_score(tokenized_query, doc) ==
    IF tokenized_query = <<>> THEN 0
    ELSE Cardinality({i \in DOMAIN doc : doc[i] = Head(tokenized_query)})
         + get_score(Tail(tokenized_query), doc)

\* (p.get("title", "") + " " + p.get("abstract", "")).lower().split(" ")
tokenized_doc(paper) == lower(paper.title \o paper.abstract)

\* str + None raises TypeError
corpus_raises(pool) ==
    \E k \in DOMAIN pool : pool[k].title = None \/ pool[k].abstract = None

\* for paper, score in zip(...): paper["score_bm25"] = score
with_scores(pool, query) ==
    [k \in DOMAIN pool |->
        ("score_bm25" :> get_score(lower(query), tokenized_doc(pool[k]))) @@ pool[k]]

\* `sorted` with `paper` put in after its first k elements
place(sorted, paper, k) ==
    SubSeq(sorted, 1, k) \o <<paper>> \o SubSeq(sorted, k + 1, Len(sorted))

\* a descending sort that puts the later of two equal scores first
RECURSIVE sort_ties_reversed(_)
sort_ties_reversed(pool) ==
    IF pool = <<>> THEN <<>>
    ELSE LET sorted == sort_ties_reversed(SubSeq(pool, 1, Len(pool) - 1))
             paper  == pool[Len(pool)]
         IN  place(sorted, paper,
                   Cardinality({i \in DOMAIN sorted :
                                   sorted[i].score_bm25 > paper.score_bm25}))

\* list.sort(key=lambda x: x.get("score_bm25", 0.0), reverse=True): descending
\* and stable, equal scores stay in the order they had
RECURSIVE sort_descending(_)
sort_descending(pool) ==
    IF pool = <<>> THEN <<>>
    ELSE LET sorted == sort_descending(SubSeq(pool, 1, Len(pool) - 1))
             paper  == pool[Len(pool)]
         IN  place(sorted, paper,
                   Cardinality({i \in DOMAIN sorted :
                                   sorted[i].score_bm25 >= paper.score_bm25}))

\* for source in sources: query_papers.extend(search_specific(...)), from the
\* j-th source on
RECURSIVE retrieve_from(_, _, _, _, _)
retrieve_from(cat, sources, query, j, query_papers) ==
    IF j > Len(sources) THEN [raised |-> FALSE, papers |-> query_papers]
    ELSE LET r == search_specific(cat, sources[j], query)
         IN  IF r.raised THEN [raised |-> TRUE, papers |-> query_papers]
             ELSE retrieve_from(cat, sources, query, j + 1, query_papers \o r.papers)

\* every dict an adapter returns is a new object: oid tells the objects apart
as_objects(pool, i) ==
    [k \in DOMAIN pool |-> ("oid" :> <<i, k>>) @@ pool[k]]

\* the dict Retriever.search builds, and merged_top_papers
SearchStart ==
    [raised |-> FALSE, sub_query |-> EmptyDict, original_query |-> <<>>,
     merged_top_papers |-> <<>>]

\* Retriever.search, step 1: `for query in queries`, from the i-th query on.
\* r is the dict built so far.
RECURSIVE per_subquery(_, _, _, _, _)
per_subquery(cat, queries, sources, i, r) ==
    IF i > Len(queries) THEN r
    ELSE
    LET query     == queries[i]
        retrieved == retrieve_from(cat, sources, query, 1, <<>>)
        deduped   == _deduplicate(_deduplicate(as_objects(retrieved.papers, i), "url"),
                                  "title")
    IN  IF retrieved.raised THEN [r EXCEPT !.raised = TRUE]
        ELSE IF deduped = <<>> THEN per_subquery(cat, queries, sources, i + 1, r)
        ELSE IF corpus_raises(deduped) THEN [r EXCEPT !.raised = TRUE]
        ELSE LET query_papers == sort_descending(with_scores(deduped, query))
             IN  per_subquery(cat, queries, sources, i + 1,
                    [r EXCEPT
                       !.merged_top_papers = @ \o query_papers,
                       !.sub_query = (query :> query_papers) @@ @])

\* the dicts of a bucket are the dicts of the merged pool: a bucket shows the
\* score the final ranking has written into a dict it shares
shared_dicts(bucket, final_papers) ==
    [k \in DOMAIN bucket |->
        IF \E j \in DOMAIN final_papers : final_papers[j].oid = bucket[k].oid
        THEN final_papers[CHOOSE j \in DOMAIN final_papers :
                             final_papers[j].oid = bucket[k].oid]
        ELSE bucket[k]]

\* Retriever.search(original_query, queries, sources=sources) with no
\* embedding_client: [raised, sub_query, original_query] and, for reference, the
\* merged pool as it was ranked
search(cat, original_query, queries, sources) ==
    LET r == per_subquery(cat, queries, sources, 1, SearchStart)
        final_papers == _deduplicate(_deduplicate(r.merged_top_papers, "url"), "title")
    IN  IF r.raised THEN [SearchStart EXCEPT !.raised = TRUE]
        ELSE IF final_papers = <<>> THEN [r EXCEPT !.merged_top_papers = final_papers]
        ELSE LET ranked == sort_descending(with_scores(final_papers, original_query))
             IN  [r EXCEPT
                    !.merged_top_papers = final_papers,
                    !.original_query = ranked,
                    !.sub_query = [q \in DOMAIN r.sub_query |->
                                      shared_dicts(r.sub_query[q], ranked)]]

\* the top_k Retriever.search is called with.  search hands it to every adapter
\* and each adapter to its API as the limit of one answer: a catalog answers one
\* query of one source with at most top_k records.
top_k == MaxHits

\* the queries arguments tried: the sub-queries, each at most once, in any order
QueryLists ==
    {qs \in SeqsUpTo(SubQueries, Cardinality(SubQueries)) :
        \A i, j \in DOMAIN qs : i # j => qs[i] # qs[j]}

\* the sources arguments tried: the default, one with a name nobody registered,
\* one with the caller's adapter
SourceLists ==
    {<<"arxiv", "semantic_scholar">>, <<"arxiv", "unknown">>, <<"custom", "arxiv">>}

\* Retriever.search(OriginalQuery, queries, sources=sources).  The Retriever
\* keeps nothing from one call to the next: one call is followed.
Search(queries, sources) ==
    /\ found = EmptyDict
    /\ last.op = "none"
    /\ found' = [original_query |-> OriginalQuery, queries |-> queries,
                 sources |-> sources,
                 result |-> search(catalog, OriginalQuery, queries, sources)]
    /\ UNCHANGED <<files, metadata_file, metadata_cache, max_retries, download_stats,
                   llm_client, now, ops, last, batchVars, catalog>>

\* A Retriever in front of catalogs that answer each sub-query with up to
\* MaxHits records
InitSearch ==
    /\ files = EmptyDict
    /\ metadata_file = EmptyDict
    /\ metadata_cache = [m \in Managers |-> EmptyDict]
    /\ max_retries = DEFAULT_MAX_RETRIES
    /\ download_stats = [total |-> 0, successful |-> 0, failed |-> 0, total_bytes |-> 0]
    /\ llm_client = FALSE
    /\ now = 0
    /\ ops = 0
    /\ last = NoCall
    /\ max_workers = DEFAULT_MAX_WORKERS
    /\ NoBatch
    /\ catalog \in [arxiv : [SubQueries -> SeqsUpTo(ArxivRecords, MaxHits)],
                     semantic_scholar :
                         [SubQueries -> SeqsUpTo(SemanticScholarRecords, MaxHits)]]
    /\ found = EmptyDict

\* PaperSourceManager.search_all(query) while the adapters in failing cannot
\* reach their catalog
SearchAll(query, failing) ==
    /\ found = EmptyDict
    /\ last.op = "none"
    /\ last' = [NoCall EXCEPT !.op = "search_all", !.query = query, !.failing = failing,
                              !.all = search_all(catalog, failing, query)]
    /\ UNCHANGED <<files, metadata_file, metadata_cache, max_retries, download_stats,
                   llm_client, now, ops, batchVars, searchVars>>

NextSearch ==
    \/ \E qs \in QueryLists : \E s \in SourceLists : Search(qs, s)
    \/ \E q \in SubQueries : \E failing \in SUBSET {"arxiv", "semantic_scholar"} :
          SearchAll(q, failing)

SpecSearch == InitSearch /\ [][NextSearch]_vars

----------------------------------------------------------------------------
\* The Processor's batch call, on a directory that is empty, or where u1 was
\* processed before, or where u1 was processed and its artifact also lies at
\* the cache path

\* what happens to one paper of a batch: the endpoint's script, the parser's
\* outcome and the LLM's answer
Envs(retries) ==
    {<<s, "pages", "a1">> : s \in ProcessScripts(retries)}
    \cup {<<[i \in 1..retries |-> "ok"], parse, "none">> : parse \in {"nopages", "raise"}}
    \cup {<<[i \in 1..retries |-> "ok"], "pages", "fail">>}

\* the papers arguments tried: their "pdf_url" values
PaperLists == SeqsUpTo(Urls \cup {"", NullUrl}, MaxBatch) \ {<<>>}

ProcessBatch(papers, force_reprocess, envs) ==
    /\ ops = 0
    /\ ops' = 1
    /\ LET r == process_papers_batch([cache |-> metadata_cache["A"], file |-> metadata_file,
                                       fs |-> files, stats |-> download_stats],
                                      papers, force_reprocess, envs, llm_client,
                                      max_retries, now)
       IN  /\ metadata_cache' = [metadata_cache EXCEPT !["A"] = r.w.cache]
           /\ metadata_file' = r.w.file
           /\ files' = r.w.fs
           /\ download_stats' = r.w.stats
           /\ last' = [NoCall EXCEPT !.op = "batch", !.mgr = "A", !.force = force_reprocess,
                                     !.today = now, !.papers = papers, !.batch = r.results]
    /\ UNCHANGED <<batchVars, searchVars, max_retries, llm_client, now>>

InitProcess ==
    /\ llm_client \in BOOLEAN
    /\ max_retries = DEFAULT_MAX_RETRIES
    /\ now = 0
    /\ ops = 0
    /\ last = NoCall
    /\ max_workers = DEFAULT_MAX_WORKERS
    /\ NoBatch
    /\ NoSearch
    /\ \E before \in {"nothing", "processed", "artifact"} :
          LET w0 == [cache |-> EmptyDict, file |-> EmptyDict, fs |-> EmptyDict,
                     stats |-> [total |-> 0, successful |-> 0, failed |-> 0,
                                total_bytes |-> 0]]
              w1 == process_paper(w0, "u1", FALSE, [i \in 1..max_retries |-> "ok"],
                                  "pages", "a1", llm_client, max_retries, now).w
              w  == IF before = "nothing" THEN w0 ELSE w1
          IN  /\ metadata_cache = [m \in Managers |-> IF m = "A" THEN w.cache ELSE EmptyDict]
              /\ metadata_file = w.file
              /\ download_stats = w.stats
              /\ files = IF before = "artifact"
                         THEN (get_cache_path(md5_8("u1")) :> "full") @@ w.fs
                         ELSE w.fs

NextProcess ==
    \E papers \in PaperLists : \E f \in BOOLEAN :
       \E envs \in [1..Len(papers) -> Envs(max_retries)] :
          ProcessBatch(papers, f, envs)

SpecProcess == InitProcess /\ [][NextProcess]_vars

----------------------------------------------------------------------------
\* One process_paper run on a paper that has a URL, statement by statement
\* (the try block, pdf_processor.py:75-173).  last holds the run: pc is the step
\* the run is about to take, steps the steps it has taken, ret the result dict it
\* builds and info the ExtractedInfo of step 5.

\* a run that marks the entry extracted right after it marked it processing
following_marks_early(step) ==
    CASE step = "check cache" -> "download"
      [] step = "download"    -> "register"
      [] step = "register"    -> "processing"
      [] step = "processing"  -> "extracted"
      [] OTHER                -> "done"

\* the step that follows `step` when `step` neither returns nor raises
following(step) ==
    CASE step = "check cache" -> "download"
      [] step = "download"    -> "register"
      [] step = "register"    -> "processing"
      [] step = "processing"  -> "parse"
      [] step = "parse"       -> "extract"
      [] step = "extract"     -> "citations"
      [] step = "citations"   -> "extracted"
      [] OTHER                -> "done"

\* the run after `step`, which went on
Goes(step) ==
    [last EXCEPT !.pc = following(step), !.steps = Append(@, step)]

\* the run after `step`, which returned `result`
Returns(step, result) ==
    [last EXCEPT !.pc = "done", !.steps = Append(@, step), !.ret = result]

\* except Exception as e: return {... "error": f"process failed: {str(e)}"}
Caught(step) ==
    Returns(step, ProcessResult(FALSE, last.paper_id, last.url, "", NoInfo, "process failed"))

\* 1. check cache
StepCheckCache(url, force_reprocess) ==
    /\ last.op = "none"
    /\ LET paper_id == md5_8(url)
           metadata == get_metadata(metadata_cache["A"], paper_id)
           run      == [NoCall EXCEPT !.op = "run", !.mgr = "A", !.paper_id = paper_id,
                                      !.url = url, !.force = force_reprocess,
                                      !.today = now, !.steps = <<"check cache">>]
       IN  last' = IF /\ ~force_reprocess
                      /\ has_cached_pdf(metadata_cache["A"], files, paper_id)
                      /\ metadata.status = "extracted"
                   THEN [run EXCEPT !.pc = "done",
                                    !.ret = ProcessResult(TRUE, paper_id, url,
                                                get_cache_path(paper_id),
                                                stored_info(metadata), "")]
                   ELSE [run EXCEPT !.pc = following("check cache")]
    /\ UNCHANGED <<batchVars, searchVars, files, metadata_file, metadata_cache, max_retries,
                   download_stats, llm_client, now, ops>>

\* 2. download PDF
StepDownload(script) ==
    /\ last.op = "run" /\ last.pc = "download"
    /\ LET d == download_paper(files, download_stats, last.url,
                               _generate_output_path(last.url), script, max_retries)
       IN  /\ files' = d.fs
           /\ download_stats' = d.stats
           /\ last' = IF ~d.result.success
                       THEN Returns("download",
                                ProcessResult(FALSE, last.paper_id, last.url, "", NoInfo,
                                              "download failed: " \o d.result.error))
                       ELSE [Goes("download") EXCEPT
                                !.ret.path = d.result.file_path,
                                !.ret.file_size = d.result.file_size]
    /\ UNCHANGED <<batchVars, searchVars, metadata_file, metadata_cache, max_retries,
                   llm_client, now, ops>>

\* 3. register cache: register_pdf
StepRegister ==
    /\ last.op = "run" /\ last.pc = "register"
    /\ Becomes("A", register_pdf(Manager("A"), last.paper_id, last.url, last.ret.path,
                                 last.ret.file_size, now))
    /\ last' = Goes("register")
    /\ UNCHANGED <<batchVars, searchVars, max_retries, download_stats, llm_client, now, ops>>

\* update_metadata(paper_id, status="processing")
StepProcessing ==
    /\ last.op = "run" /\ last.pc = "processing"
    /\ Becomes("A", update_metadata(Manager("A"), last.paper_id, "processing",
                                    EmptyDict, NoDate))
    /\ last' = Goes("processing")
    /\ UNCHANGED <<batchVars, searchVars, max_retries, download_stats, llm_client, now, ops>>

\* 4. parse PDF: extract_text
StepExtractText(parse) ==
    /\ last.op = "run" /\ last.pc = "parse"
    /\ last' = CASE parse = "nopages" ->
                       Returns("parse",
                           ProcessResult(FALSE, last.paper_id, last.url, last.ret.path,
                                         NoInfo, "can't parse PDF text"))
                  [] parse = "raise" -> Caught("parse")
                  [] OTHER -> Goes("parse")
    /\ UNCHANGED <<batchVars, searchVars, files, metadata_file, metadata_cache, max_retries,
                   download_stats, llm_client, now, ops>>

\* 5. extract info: parse_structure and extract_key_information
StepExtractInfo(answer, raises) ==
    /\ last.op = "run" /\ last.pc = "extract"
    /\ last' = IF raises THEN Caught("extract")
                ELSE [Goes("extract") EXCEPT
                         !.info = extract_key_information(llm_client, answer)]
    /\ UNCHANGED <<batchVars, searchVars, files, metadata_file, metadata_cache, max_retries,
                   download_stats, llm_client, now, ops>>

\* 6. extract citations
StepExtractCitations(raises) ==
    /\ last.op = "run" /\ last.pc = "citations"
    /\ last' = IF raises THEN Caught("citations") ELSE Goes("citations")
    /\ UNCHANGED <<batchVars, searchVars, files, metadata_file, metadata_cache, max_retries,
                   download_stats, llm_client, now, ops>>

\* 7. update_metadata(paper_id, status="extracted", metadata={...}) and return
StepExtracted ==
    /\ last.op = "run" /\ last.pc = "extracted"
    /\ Becomes("A", update_metadata(Manager("A"), last.paper_id, "extracted",
                       [extracted_info     |-> _convert_to_dict(last.info),
                        citations          |-> [form |-> "list", fields |-> "citations"],
                        page_count         |-> [form |-> "int", fields |-> "pages"],
                        extracted_sections |-> [form |-> "int", fields |-> "sections"]],
                       now))
    /\ last' = Returns("extracted",
                    ProcessResult(TRUE, last.paper_id, last.url, last.ret.path,
                                  last.info, ""))
    /\ UNCHANGED <<batchVars, searchVars, max_retries, download_stats, llm_client, now, ops>>

NextRun ==
    \/ \E u \in Urls : \E f \in BOOLEAN : StepCheckCache(u, f)
    \/ \E s \in FetchInputs(last.url) : StepDownload(s)
    \/ StepRegister
    \/ StepProcessing
    \/ \E parse \in ParseOutcomes : StepExtractText(parse)
    \/ \E a \in LLMAnswers : \E raises \in BOOLEAN : StepExtractInfo(a, raises)
    \/ \E raises \in BOOLEAN : StepExtractCitations(raises)
    \/ StepExtracted

SpecRun == InitProcess /\ [][NextRun]_vars

----------------------------------------------------------------------------
\* PDFParser.extract_key_information, on the sections and on the LLM's response.
\* Texts are sequences of tokens as in the Retriever; a section's content is a
\* sequence of blocks of 500 characters.

\* a list-valued field of ExtractedInfo, and None in its place
List(items) == [is_none |-> FALSE, items |-> items]
NoneList == [is_none |-> TRUE, items |-> <<>>]

\* the tags _parse_extraction_response looks for, in the order of the prompt
Tags == <<"title", "authors", "abstract", "objective", "methodology", "datasets",
          "models", "evaluation", "results", "contributions", "limitations">>

start_tag(name) == "<" \o name \o ">"
end_tag(name) == "</" \o name \o ">"

\* response.index(tag); 0 stands for ValueError
str_index(response, tag) ==
    IF \E i \in DOMAIN response : response[i] = tag
    THEN CHOOSE i \in DOMAIN response :
            response[i] = tag /\ \A j \in 1..(i - 1) : response[j] # tag
    ELSE 0

\* response[start_idx:end_idx].strip()
stripped(text) == IF text = <<>> THEN <<"">> ELSE strip(text)

tagged_unclosed(response, name) ==
    LET start_idx == str_index(response, start_tag(name))
        end_idx == str_index(response, end_tag(name))
    IN  IF start_idx = 0 THEN None
        ELSE IF end_idx = 0
        THEN stripped(SubSeq(response, start_idx + 1, Len(response)))
        ELSE stripped(SubSeq(response, start_idx + 1, end_idx - 1))

\* one try block of _parse_extraction_response: the text between the tags of
\* name, or None when index raised ValueError
tagged(response, name) ==
    LET start_idx == str_index(response, start_tag(name))
        end_idx == str_index(response, end_tag(name))
    IN  IF start_idx = 0 \/ end_idx = 0 THEN None
        ELSE stripped(SubSeq(response, start_idx + 1, end_idx - 1))

\* concepts_text.split(";") from token i on; piece is the part being read
RECURSIVE split(_, _, _, _)
split(text, i, piece, pieces) ==
    IF i > Len(text) THEN Append(pieces, piece)
    ELSE IF text[i] = ";" THEN split(text, i + 1, <<>>, Append(pieces, piece))
    ELSE split(text, i + 1, Append(piece, text[i]), pieces)

\* [c.strip() for c in concepts_text.split(";") if c.strip()]
authors_of(concepts_text) ==
    LET pieces == split(concepts_text, 1, <<>>, <<>>)
        kept == SelectSeq(pieces, LAMBDA c : stripped(c) # <<"">>)
    IN  [i \in DOMAIN kept |-> stripped(kept[i])]

_parse_extraction_response(response) ==
    ExtractedInfo(
        [title         |-> tagged(response, "title"),
         authors       |-> IF tagged(response, "authors") = None
                           THEN List(<<>>)
                           ELSE List(authors_of(tagged(response, "authors"))),
         abstract      |-> tagged(response, "abstract"),
         objectives    |-> tagged(response, "objective"),
         methodology   |-> tagged(response, "methodology"),
         datasets      |-> tagged(response, "datasets"),
         models        |-> tagged(response, "models"),
         evaluation    |-> tagged(response, "evaluation"),
         results       |-> tagged(response, "results"),
         contributions |-> tagged(response, "contributions"),
         limitations   |-> tagged(response, "limitations"),
         figures       |-> NoneList,
         tables        |-> NoneList])

\* the keywords of _extract_local that title.lower() contains
Mentions(title) ==
    CASE title = "ABSTRACT"            -> {"abstract"}
      [] title = "Methods and Results" -> {"method", "results"}
      [] title = "Related methods"     -> {"method"}
      [] OTHER                         -> {}

\* section.content[:1000], in blocks of 500 characters
FIRST_BLOCKS == 2

PDFSection(title, content) == [title |-> title, content |-> content]

\* the sections parse_structure can hand over
SectionPool ==
    {PDFSection("ABSTRACT", <<"b1">>),
     PDFSection("Methods and Results", <<"b2", "b3", "b4">>),
     PDFSection("Related methods", <<"b5">>)}

\* _find_section with default ""
_find_section(sections, keyword) ==
    IF \E i \in DOMAIN sections : keyword \in Mentions(sections[i].title)
    THEN LET i == CHOOSE i \in DOMAIN sections :
                     /\ keyword \in Mentions(sections[i].title)
                     /\ \A j \in 1..(i - 1) : keyword \notin Mentions(sections[j].title)
             content == sections[i].content
         IN  SubSeq(content, 1, IF Len(content) < FIRST_BLOCKS THEN Len(content)
                                ELSE FIRST_BLOCKS)
    ELSE <<"">>

_extract_local(sections) ==
    ExtractedInfo(
        [title         |-> _find_section(sections, "title"),
         authors       |-> List(<<>>),
         abstract      |-> _find_section(sections, "abstract"),
         objectives    |-> <<"">>,
         methodology   |-> _find_section(sections, "method"),
         datasets      |-> <<"">>,
         models        |-> <<"">>,
         evaluation    |-> <<"">>,
         results       |-> _find_section(sections, "results"),
         contributions |-> _find_section(sections, "contribution"),
         limitations   |-> <<"">>,
         figures       |-> List(<<>>),
         tables        |-> List(<<>>)])

\* answer is what llm_client.call does: it raises ("raise"), returns something
\* that is no string ("none"), or returns the text answer.response ("text")
_extract_with_llm_uncaught(sections, answer) ==
    IF answer.kind = "text"
    THEN _parse_extraction_response(answer.response)
    ELSE [form |-> "raised", fields |-> answer.kind]

_extract_with_llm(sections, answer) ==
    IF answer.kind = "text"
    THEN _parse_extraction_response(answer.response)
    ELSE _extract_local(sections)

\* extract_key_information(pdf_path, sections) of a parser whose llm_client is
\* set (llm) or None
extract_key_information_from(llm, sections, answer) ==
    IF llm /\ sections # <<>>
    THEN _extract_with_llm(sections, answer)
    ELSE _extract_local(sections)

\* What the LLM says about a field: blanks around a text; the authors separated
\* by ";" with an empty piece at the end.
Said(name) ==
    IF name = "authors" THEN <<"", "Ann", ";", "Bob", ";", "">>
    ELSE <<"", name, "">>

\* How a field of the response is broken: without its opening tag, without its
\* closing tag, or absent altogether
BrokenKinds == {"no_start", "no_end", "absent"}

Fragment(name, kind) ==
    CASE kind = "both"     -> <<start_tag(name)>> \o Said(name) \o <<end_tag(name)>>
      [] kind = "no_start" -> Said(name) \o <<end_tag(name)>>
      [] kind = "no_end"   -> <<start_tag(name)>> \o Said(name)
      [] OTHER             -> <<>>

\* the response in which the fields of broken are broken as it says
RECURSIVE ResponseFrom(_, _)
ResponseFrom(broken, i) ==
    IF i > Len(Tags) THEN <<"</response>">>
    ELSE Fragment(Tags[i], IF Tags[i] \in DOMAIN broken THEN broken[Tags[i]] ELSE "both")
         \o ResponseFrom(broken, i + 1)

TagNames == {Tags[i] : i \in DOMAIN Tags}

\* The answers tried: the call raises; it returns None; it returns a response
\* in which at most two fields are broken; it returns a text without any tag.
Answers ==
    {[kind |-> k, broken |-> EmptyDict, response |-> <<>>] : k \in {"raise", "none"}}
    \cup {[kind |-> "text", broken |-> b, response |-> <<"<response>">> \o ResponseFrom(b, 1)] :
             b \in UNION {[{f, g} -> BrokenKinds] : f, g \in TagNames}}
    \cup {[kind |-> "text", broken |-> b, response |-> <<"<response>">> \o ResponseFrom(b, 1)] :
             b \in {EmptyDict, [f \in TagNames |-> "absent"]}}

\* the answer is read only when the LLM is called
AnswerInputs == IF llm_client /\ last.sections # <<>> THEN Answers ELSE {NoCall.answer}

\* PDFParser.parse_structure handed over sections
ParseStructure(sections) ==
    /\ last.op = "none"
    /\ ops = 0
    /\ ops' = 1
    /\ last' = [NoCall EXCEPT !.op = "sections", !.sections = sections]
    /\ UNCHANGED <<files, metadata_file, metadata_cache, max_retries, download_stats,
                   llm_client, now, batchVars, searchVars>>

\* PDFParser.extract_key_information(pdf_path, sections)
ExtractKeyInformation(answer) ==
    /\ last.op = "sections"
    /\ ops' = ops + 1
    /\ last' = [last EXCEPT !.op = "extract", !.answer = answer,
                            !.info = extract_key_information_from(llm_client,
                                                                  last.sections, answer)]
    /\ UNCHANGED <<files, metadata_file, metadata_cache, max_retries, download_stats,
                   llm_client, now, batchVars, searchVars>>

InitParser ==
    /\ files = EmptyDict
    /\ metadata_file = EmptyDict
    /\ metadata_cache = [m \in Managers |-> EmptyDict]
    /\ max_retries = DEFAULT_MAX_RETRIES
    /\ download_stats = [total |-> 0, successful |-> 0, failed |-> 0, total_bytes |-> 0]
    /\ llm_client \in BOOLEAN
    /\ now = 0
    /\ ops = 0
    /\ last = NoCall
    /\ max_workers = DEFAULT_MAX_WORKERS
    /\ NoBatch
    /\ NoSearch

NextParser ==
    \/ \E sections \in SeqsUpTo(SectionPool, MaxSections) : ParseStructure(sections)
    \/ \E answer \in AnswerInputs : ExtractKeyInformation(answer)

SpecParser == InitParser /\ [][NextParser]_vars

----------------------------------------------------------------------------
\* The BM25 scores of Retriever.search: BM25Okapi(tokenized_corpus) of the
\* rank_bm25 package with its defaults k1 = 1.5, b = 0.75, epsilon = 0.25, and
\* get_scores(tokenized_query).  Logarithms and scores are in millionths.

\* math.log of an odd number, in millionths
ln_micro(k) ==
    CASE k = 1  -> 0
      [] k = 3  -> 1098612
      [] k = 5  -> 1609438
      [] k = 7  -> 1945910
      [] k = 9  -> 2197225
      [] k = 11 -> 2397895
      [] k = 13 -> 2564949
      [] OTHER  -> 2708050

\* the words of the corpus (the keys of nd)
vocabulary(corpus) == UNION {{corpus[k][i] : i \in DOMAIN corpus[k]} : k \in DOMAIN corpus}

\* nd[word]: the number of documents that hold the word
nd(corpus, word) ==
    Cardinality({k \in DOMAIN corpus : \E i \in DOMAIN corpus[k] : corpus[k][i] = word})

\* math.log(corpus_size - freq + 0.5) - math.log(freq + 0.5), which is
\* ln(2 * (corpus_size - freq) + 1) - ln(2 * freq + 1)
raw_idf(corpus, word) ==
    ln_micro(2 * (Len(corpus) - nd(corpus, word)) + 1) - ln_micro(2 * nd(corpus, word) + 1)

RECURSIVE idf_sum(_, _)
idf_sum(corpus, words) ==
    IF words = {} THEN 0
    ELSE LET word == CHOOSE w \in words : TRUE
         IN  raw_idf(corpus, word) + idf_sum(corpus, words \ {word})

\* self.idf.get(q) or 0 after _calc_idf: a negative idf is replaced by
\* epsilon * average_idf, the average being taken over the whole vocabulary
idf(corpus, word) ==
    IF word \notin vocabulary(corpus) THEN 0
    ELSE IF raw_idf(corpus, word) < 0
    THEN idf_sum(corpus, vocabulary(corpus)) \div (4 * Cardinality(vocabulary(corpus)))
    ELSE raw_idf(corpus, word)

\* sum of the doc_len, so that avgdl is total_len / corpus_size
RECURSIVE total_len(_)
total_len(corpus) ==
    IF corpus = <<>> THEN 0 ELSE Len(Head(corpus)) + total_len(Tail(corpus))

\* one summand of get_scores for document k:
\*   idf * q_freq * (k1 + 1) / (q_freq + k1 * (1 - b + b * doc_len / avgdl))
\* with numerator and denominator multiplied by 8 * total_len
term_score(corpus, k, q) ==
    LET q_freq == Cardinality({i \in DOMAIN corpus[k] : corpus[k][i] = q})
        total == total_len(corpus)
    IN  IF q_freq = 0 THEN 0
        ELSE (idf(corpus, q) * 20 * q_freq * total)
             \div (8 * q_freq * total + 3 * total + 9 * Len(corpus[k]) * Len(corpus))

RECURSIVE score_from(_, _, _, _)
score_from(corpus, tokenized_query, k, j) ==
    IF j > Len(tokenized_query) THEN 0
    ELSE term_score(corpus, k, tokenized_query[j])
         + score_from(corpus, tokenized_query, k, j + 1)

\* BM25Okapi(tokenized_corpus).get_scores(tokenized_query)
get_scores(tokenized_corpus, tokenized_query) ==
    [k \in DOMAIN tokenized_corpus |-> score_from(tokenized_corpus, tokenized_query, k, 1)]

\* the records a deduplicated candidate pool is made of, and the queries
RankRecords ==
    {PaperDict(<<url>>, title, abstract, "arxiv") :
        url \in {"r"}, title \in {<<"GNN">>, <<"BERT">>, <<"GNN", "">>},
        abstract \in {<<"benchmarks">>, <<"scalability">>, <<"pretraining">>}}

RankQueries == {<<"GNN", "benchmarks">>, <<"gnn", "scalability">>, <<"BERT">>}

\* pools of at most MaxDocs records, no record twice
RankPools ==
    {pool \in SeqsUpTo(RankRecords, MaxDocs) :
        pool # <<>> /\ \A i, j \in DOMAIN pool : i # j => pool[i] # pool[j]}

\* step c of Retriever.search on a deduplicated pool: the scores of
\* query_papers against query
Rank(query_papers, query) ==
    /\ last.op = "none"
    /\ ops = 0
    /\ ops' = 1
    /\ LET tokenized_corpus == [k \in DOMAIN query_papers |-> tokenized_doc(query_papers[k])]
           tokenized_query == lower(query)
       IN  last' = [NoCall EXCEPT !.op = "rank", !.papers = tokenized_corpus,
                                  !.query = tokenized_query,
                                  !.scores = get_scores(tokenized_corpus, tokenized_query)]
    /\ UNCHANGED <<files, metadata_file, metadata_cache, max_retries, download_stats,
                   llm_client, now, batchVars, searchVars>>

NextRank == \E pool \in RankPools : \E query \in RankQueries : Rank(pool, query)

SpecRank == InitParser /\ [][NextRank]_vars

----------------------------------------------------------------------------
\* One exchange of the Downloader with the endpoint, by what the response holds

\* the content-type headers tried ("": no such header) and the bodies tried, a
\* body being the sequence of its bytes
ContentTypes == {"application/pdf", "Application/PDF", "text/html",
                 "application/octet-stream", ""}

Contents == {<<"%", "P", "D", "F", "-", "1">>, <<"<", "h", "t", "m", "l", ">">>,
             <<"%", "P", "D">>, <<>>}

\* response.headers.get('content-type', '').lower()
lower_type(content_type) ==
    IF content_type = "Application/PDF" THEN "application/pdf" ELSE content_type

\* 'pdf' in content_type, for the lower-cased headers above
has_pdf(content_type) == content_type = "application/pdf"

\* response.content[:4]
first_bytes(content, n) == SubSeq(content, 1, IF Len(content) < n THEN Len(content) ELSE n)

MAGIC == <<"%", "P", "D", "F">>

is_pdf_both_signals(content_type, content) ==
    has_pdf(lower_type(content_type)) /\ first_bytes(content, Len(MAGIC)) = MAGIC

\* the negation of the condition under which _download_with_retry raises
\* "invalid PDF content type"
is_pdf(content_type, content) ==
    ~(~has_pdf(lower_type(content_type)) /\ first_bytes(content, Len(MAGIC)) # MAGIC)

\* What an exchange comes to.  network: "ok", "net" (requests.get or
\* raise_for_status raises) or "broken" (the body stream breaks while the file
\* is written).
outcome_of(exchange) ==
    IF exchange.network = "net" THEN "net"
    ELSE IF ~is_pdf(exchange.content_type, exchange.content) THEN "invalid"
    ELSE IF exchange.network = "broken" THEN "broken"
    ELSE "ok"

Exchanges ==
    [network : {"ok", "net", "broken"}, content_type : ContentTypes, content : Contents]

\* PDFDownloader._download_with_retry(url, output_path): one attempt
DownloadWithRetry(url, exchange) ==
    /\ ops = 0
    /\ ops' = 1
    /\ LET r == _download_with_retry(files, url, _generate_output_path(url),
                                     outcome_of(exchange))
       IN  /\ files' = r.fs
           /\ last' = [NoCall EXCEPT
                         !.op = "attempt", !.url = url, !.exchange = exchange,
                         !.ret = [@ EXCEPT !.success = ~r.raised, !.url = url,
                                           !.file_size = r.file_size,
                                           !.error = r.error,
                                           !.raises = IF r.raised THEN "PDFDownloadError"
                                                      ELSE ""]]
    /\ UNCHANGED <<batchVars, searchVars, metadata_file, metadata_cache, max_retries,
                   download_stats, llm_client, now>>

NextAttempt == \E url \in Urls : \E exchange \in Exchanges : DownloadWithRetry(url, exchange)

SpecAttempt == InitFetch /\ [][NextAttempt]_vars

----------------------------------------------------------------------------
\* CacheManager(cache_dir) on a metadata.json that something else wrote.  Here
\* metadata_file is the file as it lies on disk: whether it can be opened, what
\* json.load makes of it, and its rows in the order of the file.

\* a row of the file: "paper_id": {...}, or "paper_id": null
Row(paper_id, is_dict) ==
    [paper_id |-> paper_id, is_dict |-> is_dict,
     data |-> to_dict(CacheMetadata(paper_id, "u1", get_cache_path(paper_id), 0))]

\* the loop of _load_metadata from row i on: from_dict raises AttributeError on
\* a row that is no dict, and the handler leaves metadata_cache as it is by then
RECURSIVE load_rows(_, _, _, _)
load_rows(rows, i, cache, today) ==
    IF i > Len(rows) THEN cache
    ELSE IF ~rows[i].is_dict THEN cache
    ELSE load_rows(rows, i + 1,
                   (rows[i].paper_id :> from_dict(rows[i].data, today)) @@ cache, today)

\* _load_metadata on the file as it lies on disk
_load_metadata_from(text, today) ==
    IF ~text.readable \/ text.json # "dict"
    THEN EmptyDict
    ELSE load_rows(text.rows, 1, EmptyDict, today)

\* the files tried: unreadable, no JSON, a JSON list, and a JSON object whose
\* rows, one per paper at most, are dicts or null
FileTexts ==
    {[readable |-> r, json |-> j, rows |-> rows] :
        r \in BOOLEAN, j \in {"dict", "malformed", "list"},
        rows \in {rs \in SeqsUpTo({Row(p, d) : p \in PaperIds, d \in BOOLEAN},
                                   Cardinality(PaperIds)) :
                     \A i, j2 \in DOMAIN rs : i # j2 => rs[i].paper_id # rs[j2].paper_id}}

\* CacheManager(cache_dir): a new object replaces m
ConstructFrom(m) ==
    /\ Called
    /\ metadata_cache' = [metadata_cache EXCEPT
                             ![m] = _load_metadata_from(metadata_file, now)]
    /\ last' = [NoCall EXCEPT !.op = "construct", !.mgr = m, !.today = now]
    /\ UNCHANGED <<batchVars, searchVars, files, metadata_file, max_retries,
                   download_stats, llm_client, now>>

InitLoad ==
    /\ files = EmptyDict
    /\ metadata_file \in FileTexts
    /\ metadata_cache = [m \in Managers |-> EmptyDict]
    /\ max_retries = DEFAULT_MAX_RETRIES
    /\ download_stats = [total |-> 0, successful |-> 0, failed |-> 0, total_bytes |-> 0]
    /\ llm_client = FALSE
    /\ now \in 0..MaxDay
    /\ ops = 0
    /\ last = NoCall
    /\ max_workers = DEFAULT_MAX_WORKERS
    /\ NoBatch
    /\ NoSearch

NextLoad == \E m \in Managers : ConstructFrom(m)

SpecLoad == InitLoad /\ [][NextLoad]_vars

----------------------------------------------------------------------------
\* The Retriever's two deduplication passes, each called on its own

\* records as the adapters deliver them: two that share a URL, two that share a
\* title, an arXiv entry without <id> (url ""), a Semantic Scholar item whose
\* title is null
DedupRecords ==
    {PaperDict(<<"a">>, <<"GNN">>, <<"scalability">>, "arxiv"),
     PaperDict(<<"a">>, <<"survey">>, <<"GNN">>, "semantic_scholar"),
     PaperDict(<<"c">>, <<"GNN">>, <<"benchmarks">>, "semantic_scholar"),
     PaperDict(<<"">>, <<"BERT">>, <<"survey">>, "arxiv"),
     PaperDict(<<"d">>, None, <<"BERT">>, "semantic_scholar")}

\* Retriever._deduplicate(papers, key)
Deduplicate(papers, key) ==
    /\ last.op = "none"
    /\ last' = [NoCall EXCEPT !.op = "deduplicate", !.papers = papers, !.key = key,
                              !.unique = _deduplicate(papers, key)]
    /\ UNCHANGED <<files, metadata_file, metadata_cache, max_retries, download_stats,
                   llm_client, now, ops, batchVars, searchVars>>

\* the embeddings the service answers with, one per text; any two of them may be
\* close while a third is close to only one of the two
Vectors == {<<4, 0>>, <<4, 1>>, <<15, 8>>, <<0, 1>>}

\* SLMClient.get_embeddings(texts): the vectors the service answers with (ok),
\* or an empty embedding per text when the request fails
get_embeddings(texts, answer) ==
    IF texts = <<>> THEN <<>>
    ELSE IF ~answer.ok THEN [k \in DOMAIN texts |-> <<>>]
    ELSE answer.vectors

\* np.dot of two embeddings
dot(a, b) == a[1] * b[1] + a[2] * b[2]

\* threshold: float = 0.95, as the fraction 19 / 20
THRESHOLD_NUM == 19
THRESHOLD_DEN == 20

\* cosine_similarity(...)[i, j] > threshold, in integers:
\* dot / (|a| |b|) > 19/20
above_threshold(a, b) ==
    /\ dot(a, b) > 0
    /\ THRESHOLD_DEN * THRESHOLD_DEN * dot(a, b) * dot(a, b)
          > THRESHOLD_NUM * THRESHOLD_NUM * dot(a, a) * dot(b, b)

\* a pass in which every paper marks the later ones that resemble it
marks_always(to_keep, i) == TRUE

\* if to_keep[i]: only a paper that is kept marks later ones for removal
marks(to_keep, i) == to_keep[i]

\* for i in range(len(papers)), from i on
RECURSIVE mark_from(_, _, _)
mark_from(embeddings, i, to_keep) ==
    IF i > Len(embeddings) THEN to_keep
    ELSE IF marks(to_keep, i)
    THEN mark_from(embeddings, i + 1,
             [j \in DOMAIN to_keep |->
                 to_keep[j] /\ ~(j > i /\ above_threshold(embeddings[i], embeddings[j]))])
    ELSE mark_from(embeddings, i + 1, to_keep)

\* [papers[i] for i, keep in enumerate(to_keep) if keep], from i on
RECURSIVE kept_from(_, _, _)
kept_from(papers, to_keep, i) ==
    IF i > Len(papers) THEN <<>>
    ELSE (IF to_keep[i] THEN <<papers[i]>> ELSE <<>>) \o kept_from(papers, to_keep, i + 1)

\* Retriever._deduplicate_by_similarity(papers, "title") once get_embeddings has
\* answered
_deduplicate_by_similarity(papers, embeddings) ==
    IF embeddings # <<>> /\ \E k \in DOMAIN embeddings : embeddings[k] # <<>>
    THEN kept_from(papers, mark_from(embeddings, 1, [k \in DOMAIN papers |-> TRUE]), 1)
    ELSE papers

\* a pool as it reaches the similarity pass, after the two key passes: n records
\* with n URLs and n titles
SimilarityPool(n) ==
    [k \in 1..n |-> PaperDict(<<"u" \o ToString(k)>>, <<"paper", ToString(k)>>,
                              <<"abstract">>, "arxiv")]

DeduplicateBySimilarity(papers, answer) ==
    /\ last.op = "none"
    /\ LET paper_texts_to_embed == [k \in DOMAIN papers |-> papers[k].title]
           embeddings == get_embeddings(paper_texts_to_embed, answer)
       IN  last' = [NoCall EXCEPT !.op = "similarity", !.papers = papers,
                                  !.key = "title", !.embeddings = embeddings,
                                  !.unique = _deduplicate_by_similarity(papers, embeddings)]
    /\ UNCHANGED <<files, metadata_file, metadata_cache, max_retries, download_stats,
                   llm_client, now, ops, batchVars, searchVars>>

NextDedup ==
    \/ \E papers \in SeqsUpTo(DedupRecords, MaxPool) : \E key \in {"url", "title"} :
          Deduplicate(papers, key)
    \/ \E n \in 0..MaxPool :
          \E answer \in {[ok |-> TRUE, vectors |-> v] : v \in [1..n -> Vectors]}
                         \cup {[ok |-> FALSE, vectors |-> <<>>]} :
             DeduplicateBySimilarity(SimilarityPool(n), answer)

SpecDedup == InitParser /\ [][NextDedup]_vars

----------------------------------------------------------------------------
\* Properties of the Processor and the Cache Manager (under Spec)

\* the content key of the last call, and the Processor's entry for it
LastKey == last.paper_id

CacheCalls == {"register", "update", "delete", "cleanup", "process"}

\* C1: a process_paper call with force_reprocess = False for a paper whose entry
\* already has status extracted downloads nothing, parses nothing, calls no LLM,
\* changes neither the index nor the directory, and returns the stored
\* extracted_info.
C1_ProcessIdempotent ==
    [][(/\ last'.op = "process"
        /\ ~last'.force
        /\ last'.paper_id \in DOMAIN metadata_cache["A"]
        /\ metadata_cache["A"][last'.paper_id].status = "extracted")
       => (/\ last'.fx = NoEffects
           /\ metadata_cache' = metadata_cache
           /\ metadata_file' = metadata_file
           /\ files' = files
           /\ last'.ret.success
           /\ last'.ret.extracted_info.fields =
                 stored_info(metadata_cache["A"][last'.paper_id]).fields)]_vars

StatusRank(status) ==
    CASE status = "cached"     -> 0
      [] status = "processing" -> 1
      [] OTHER                 -> 2

\* C2: while an entry exists, no call moves its status back along
\* cached -> processing -> extracted.
C2_StatusOnlyAdvances ==
    [][\A m \in Managers :
         \A p \in DOMAIN metadata_cache[m] \cap DOMAIN metadata_cache'[m] :
            StatusRank(metadata_cache'[m][p].status)
               >= StatusRank(metadata_cache[m][p].status)]_vars

\* C3: once register_pdf has returned, has_cached_pdf answers True for the key, on
\* the registering manager and on a manager constructed afterwards on the directory.
C3_RegisteredIsCached ==
    last.op = "register"
    => /\ has_cached_pdf(metadata_cache[last.mgr], files, LastKey)
       /\ has_cached_pdf(_load_metadata(metadata_file, now), files, LastKey)

\* C4: after a successful process_paper the entry of the paper's key records the
\* artifact at get_cache_path(key), and has_cached_pdf(key) is True.
C4_ArtifactAtCachePath ==
    (last.op = "process" /\ last.ret.success)
    => /\ LastKey \in DOMAIN metadata_cache["A"]
       /\ metadata_cache["A"][LastKey].file_path = get_cache_path(LastKey)
       /\ has_cached_pdf(metadata_cache["A"], files, LastKey)

\* C5: a register_pdf for a key that already has an entry (called directly or by
\* process_paper) keeps that entry's download time and, when called directly, its
\* status and extraction payload.
C5_RegisterKeepsEntry ==
    [][\A m \in Managers :
         (/\ last'.mgr = m
          /\ \/ last'.op = "register"
             \/ last'.op = "process" /\ last'.fx.registers > 0
          /\ last'.paper_id \in DOMAIN metadata_cache[m])
         => LET old == metadata_cache[m][last'.paper_id]
                new == metadata_cache'[m][last'.paper_id]
            IN  /\ new.downloaded_date = old.downloaded_date
                /\ last'.op = "register"
                   => (new.status = old.status /\ new.metadata = old.metadata)]_vars

C7_CleanupExact ==
    [][last'.op = "cleanup"
       => LET old     == metadata_cache[last'.mgr]
              expired == {p \in DOMAIN old :
                             now - old[p].downloaded_date > last'.max_age_days}
          IN  /\ DOMAIN metadata_cache'[last'.mgr] = DOMAIN old \ expired
              /\ \A p \in expired :
                    /\ ~exists(files', old[p].file_path)
                    /\ ~exists(files', get_cache_path(p))
              /\ \A f \in DOMAIN files :
                    exists(files', f)
                    \/ \E p \in expired : f \in {old[p].file_path, get_cache_path(p)}]_vars

\* C8: delete_cached_pdf of an entry removes its row and its artifact together:
\* afterwards neither the row nor the artifact is left.
C8_DeleteRowAndArtifact ==
    [][(last'.op = "delete" /\ last'.paper_id \in DOMAIN metadata_cache[last'.mgr])
       => LET old == metadata_cache[last'.mgr][last'.paper_id]
          IN  /\ last'.paper_id \notin DOMAIN metadata_cache'[last'.mgr]
              /\ ~exists(files', old.file_path)
              /\ ~exists(files', get_cache_path(last'.paper_id))]_vars

----------------------------------------------------------------------------
\* Properties of the Downloader (under SpecFetch)

\* the call is a download_paper whose destination file did not exist
FetchesFromEndpoint ==
    last'.op = "fetch" /\ ~exists(files, _generate_output_path(last'.url))

\* C9: when the endpoint fails k < max_retries times and then succeeds,
\* download_paper returns success after k + 1 requests and exactly k sleeps, the
\* i-th (from 0) of 2^i seconds, and reports the size of the file it wrote.
C9_RetrySchedule ==
    [][(FetchesFromEndpoint /\ last'.final = "ok")
       => LET k    == last'.failures
              path == _generate_output_path(last'.url)
          IN  /\ k < max_retries
              /\ last'.ret.success
              /\ last'.fx.requests = k + 1
              /\ Len(last'.fx.sleeps) = k
              /\ \A i \in 0..(k - 1) : last'.fx.sleeps[i + 1] = 2 ^ i
              /\ last'.ret.path = path
              /\ files'[path] = "full"
              /\ last'.ret.file_size = getsize(files'[path])]_vars

\* C9 happens: two failures, then success
C9_Witness ==
    /\ last.op = "fetch"
    /\ last.failures = 2
    /\ last.final = "ok"
    /\ last.ret.success
    /\ last.fx.sleeps = <<1, 2>>

\* C10: a download_paper call makes at most max_retries requests; when every
\* exchange fails (network or validation alike) it makes exactly max_retries
\* requests and max_retries - 1 sleeps and returns failure with the last error.
C10_RetriesBounded ==
    [][last'.op = "fetch"
       => /\ last'.fx.requests <= max_retries
          /\ (FetchesFromEndpoint /\ last'.final # "ok")
             => /\ ~last'.ret.success
                /\ last'.fx.requests = max_retries
                /\ Len(last'.fx.sleeps) = max_retries - 1
                /\ last'.ret.error = error_of(last'.final)
                /\ last'.ret.error # ""]_vars

\* C10 happens: three failing exchanges, the last a validation failure
C10_Witness ==
    /\ last.op = "fetch"
    /\ max_retries = 3
    /\ last.failures = 3
    /\ ~last.ret.success
    /\ last.fx.requests = 3
    /\ last.fx.sleeps = <<1, 2>>
    /\ last.ret.error = "invalid PDF content type"

\* C11: a download_paper call whose destination file already exists returns
\* success with that file's path and size, makes no request, takes no sleep and
\* leaves the directory as it was.
C11_ExistingFileSkipped ==
    [][(last'.op = "fetch" /\ exists(files, _generate_output_path(last'.url)))
       => LET path == _generate_output_path(last'.url)
          IN  /\ last'.ret.success
              /\ last'.ret.path = path
              /\ last'.ret.file_size = getsize(files[path])
              /\ last'.ret.error = ""
              /\ last'.fx.requests = 0
              /\ last'.fx.sleeps = <<>>
              /\ files' = files]_vars

\* C11 happens: a download_paper call found the file an earlier call had written
C11_Witness ==
    /\ last.op = "fetch"
    /\ last.ret.success
    /\ last.fx.requests = 0
    /\ last.ret.path = _generate_output_path(last.url)
    /\ exists(files, last.ret.path)
    /\ download_stats.successful = 1

----------------------------------------------------------------------------
\* Properties of download_papers_batch (under SpecBatch)

\* the identifiers submitted, and the entry returned for one of them
SubmittedIds == {batch_papers[i].paper_id : i \in DOMAIN batch_papers}

\* the sum of the file sizes of the entries of `entries` that report success
RECURSIVE SizeOfSuccesses(_, _)
SizeOfSuccesses(entries, ids) ==
    IF ids = {} THEN 0
    ELSE LET id == CHOOSE id \in ids : TRUE
         IN  (IF entries[id].success THEN entries[id].file_size ELSE 0)
             + SizeOfSuccesses(entries, ids \ {id})

\* C12: the dict a batch call returns has exactly one entry per submitted
\* identifier; a paper without URL, a paper whose retries ran out and a paper whose
\* worker raised have a failure entry; and a paper is reported downloaded only if
\* its file was there before the call or a successful exchange of the batch wrote
\* it, whatever the failing papers did.
C12_BatchOneEntryEach ==
    main.pc = "returned"
    => /\ DOMAIN returned.results = SubmittedIds
       /\ \A i \in DOMAIN batch_papers :
             batch_papers[i].url = "" => ~returned.results[batch_papers[i].paper_id].success
       /\ \A t \in DOMAIN tasks :
             /\ (tasks[t].raised \/ ~tasks[t].result.success)
                => ~returned.results[tasks[t].paper_id].success
             /\ returned.results[tasks[t].paper_id].success
                => \/ tasks[t].output_path \in main.listing
                   \/ \E s \in DOMAIN tasks :
                         tasks[s].url = tasks[t].url /\ tasks[s].fetched

\* C13: the successful, failed and total_bytes a batch call returns are the number
\* of its entries that report success, the number that report failure, and the
\* total file size of those that report success.
C13_BatchCountersExact ==
    main.pc = "returned"
    => /\ returned.successful =
             Cardinality({id \in SubmittedIds : returned.results[id].success})
       /\ returned.failed =
             Cardinality({id \in SubmittedIds : ~returned.results[id].success})
       /\ returned.total_bytes = SizeOfSuccesses(returned.results, SubmittedIds)

\* C14: at no time do more than max_workers tasks run, and when the batch call
\* has returned every paper with a URL has a task and every task has completed.
C14_PoolBounded ==
    /\ Cardinality(Running(tasks)) <= max_workers
    /\ main.pc = "returned"
       => /\ Len(tasks) = Cardinality({i \in DOMAIN batch_papers : batch_papers[i].url # ""})
          /\ \A t \in DOMAIN tasks : tasks[t].pc = "collected"

\* C14 happens: the only pool thread is busy with one task while another waits
C14_Witness ==
    /\ max_workers = 1
    /\ Len(tasks) = 2
    /\ tasks[1].pc = "attempt"
    /\ tasks[2].pc = "queued"

----------------------------------------------------------------------------
\* Properties of Retriever.search (under SpecSearch)

\* a search call has returned a dict
Answered == found # EmptyDict /\ ~found.result.raised

\* the records the requested sources returned for the queries passed
Candidates ==
    UNION {{retrieve_from(catalog, found.sources, found.queries[i], 1, <<>>).papers[k] :
               k \in DOMAIN retrieve_from(catalog, found.sources, found.queries[i],
                                          1, <<>>).papers} :
           i \in DOMAIN found.queries}

\* no two records of pool have the same non-empty URL or the same title once
\* stripped, the normalisation the arXiv adapter applies
NoDuplicates(pool) ==
    \A i, j \in DOMAIN pool :
        i < j => /\ ~(Truthy(pool[i].url) /\ pool[i].url = pool[j].url)
                 /\ strip(pool[i].title) # strip(pool[j].title)

\* a record as a caller sees it
View(paper) ==
    [url |-> paper.url, title |-> paper.title, abstract |-> paper.abstract,
     source |-> paper.source, score_bm25 |-> paper.score_bm25]

\* the place of a dict in the merged pool
Discovery(paper) ==
    CHOOSE j \in DOMAIN found.result.merged_top_papers :
        found.result.merged_top_papers[j].oid = paper.oid

\* C15: in the dict search returns, no bucket and no final sequence holds two
\* records with the same non-empty URL or the same normalized title, and every
\* candidate that has a URL and a title is in the final sequence exactly once.
C15_DedupNoDuplicates ==
    Answered
    => /\ NoDuplicates(found.result.original_query)
       /\ \A q \in DOMAIN found.result.sub_query : NoDuplicates(found.result.sub_query[q])
       /\ \A c \in Candidates :
             (Truthy(c.url) /\ Truthy(c.title))
             => Cardinality({j \in DOMAIN found.result.original_query :
                    \/ found.result.original_query[j].url = c.url
                    \/ strip(found.result.original_query[j].title) = strip(c.title)}) = 1

\* C16: in the dict search returns, every bucket is in non-increasing order of
\* its records' score_bm25, and that score is the one computed against the
\* bucket's sub-query.
C16_BucketsKeepScores ==
    Answered
    => \A q \in DOMAIN found.result.sub_query :
          LET bucket == found.result.sub_query[q]
          IN  /\ \A k \in DOMAIN bucket :
                    bucket[k].score_bm25 = get_score(lower(q), tokenized_doc(bucket[k]))
              /\ \A k \in 1..(Len(bucket) - 1) :
                    bucket[k].score_bm25 >= bucket[k + 1].score_bm25

\* C17: the final sequence is in non-increasing order of the score computed
\* against the original query, and of two records with equal scores the one that
\* entered the merged pool first comes first.
C17_FinalRanking ==
    Answered
    => LET final == found.result.original_query
       IN  /\ \A k \in DOMAIN final :
                 final[k].score_bm25 =
                    get_score(lower(found.original_query), tokenized_doc(final[k]))
           /\ \A j, k \in DOMAIN final :
                 j < k => \/ final[j].score_bm25 > final[k].score_bm25
                          \/ /\ final[j].score_bm25 = final[k].score_bm25
                             /\ Discovery(final[j]) < Discovery(final[k])

\* C17 happens: two records of equal, positive score found under different
\* sub-queries are ranked
C17_Witness ==
    /\ Answered
    /\ Len(found.result.original_query) = 2
    /\ found.result.original_query[1].oid[1] # found.result.original_query[2].oid[1]
    /\ found.result.original_query[1].score_bm25 = found.result.original_query[2].score_bm25
    /\ found.result.original_query[1].score_bm25 > 0

\* C18: every sub-query passed has a bucket in the dict returned, an empty one
\* when no source returned a candidate for it.
C18_EveryQueryHasBucket ==
    Answered
    => \A i \in DOMAIN found.queries :
          /\ found.queries[i] \in DOMAIN found.result.sub_query
          /\ retrieve_from(catalog, found.sources, found.queries[i], 1, <<>>).papers = <<>>
             => found.result.sub_query[found.queries[i]] = <<>>

\* C19: a call with the same sub-queries in another order returns a final
\* sequence with the same records and the same scores.
C19_OrderOfQueriesImmaterial ==
    Answered
    => \A qs \in QueryLists :
          {qs[i] : i \in DOMAIN qs} = {found.queries[i] : i \in DOMAIN found.queries}
          => LET other == search(catalog, found.original_query, qs, found.sources)
             IN  /\ ~other.raised
                 /\ {View(other.original_query[j]) : j \in DOMAIN other.original_query}
                    = {View(found.result.original_query[j]) :
                          j \in DOMAIN found.result.original_query}

\* C20: search returns a dict whatever the sources do: no call raises.
C20_SearchNeverRaises ==
    found # EmptyDict => ~found.result.raised

----------------------------------------------------------------------------
\* Properties of the Processor's batch call (under SpecProcess)

\* C21: process_papers_batch always returns a batch result and never raises: a
\* paper that fails at any stage (URL missing or null, download failure,
\* unparsable PDF, extraction error) has an explicit failure entry in the
\* result, and every paper of the batch is processed.
C21_BatchNeverRaises ==
    last.op = "batch" =>
        /\ last.batch.raises = ""
        /\ Len(last.batch.log) = Len(last.papers)
        /\ \A i \in 1..Len(last.batch.log) :
              ~last.batch.log[i].success =>
                 \E id \in DOMAIN last.batch.papers :
                    /\ last.batch.papers[id].url = last.papers[i]
                    /\ ~last.batch.papers[id].success

----------------------------------------------------------------------------
\* Properties of the Source Manager (under SpecSearch)

----------------------------------------------------------------------------
\* Further properties of the Processor and the Cache Manager (under Spec)

\* C23: process_paper on a paper without a usable URL (no "pdf_url" key, or the
\* key with None) returns a failure result with an error text, without calling
\* the Downloader, without a request or a sleep, and leaves the index,
\* metadata.json and the directory as they were.
C23_NoUrlFailsFast ==
    [][(last'.op = "process" /\ last'.url \in {"", NullUrl}) =>
          /\ last'.ret.raises = ""
          /\ ~last'.ret.success
          /\ last'.ret.error # ""
          /\ last'.fx = NoEffects
          /\ UNCHANGED <<files, metadata_file, metadata_cache>>]_vars

\* C24: in every reachable state of the index, every entry whose status is
\* extracted holds an extracted_info that is not None in its metadata dict.
C24_ExtractedHasInfo ==
    \A paper_id \in DOMAIN metadata_cache["A"] :
       metadata_cache["A"][paper_id].status = "extracted" =>
          stored_info(metadata_cache["A"][paper_id]) # NoInfo

\* the sum of the file_size the entries of an index were registered with
RECURSIVE DeclaredSize(_)
DeclaredSize(cache) ==
    IF DOMAIN cache = {} THEN 0
    ELSE LET p == CHOOSE p \in DOMAIN cache : TRUE
         IN  cache[p].file_size + DeclaredSize(DictDel(cache, p))

\* C30: get_cache_stats reports a total size equal to the sum of the sizes
\* declared at registration of the entries in the index: n entries registered
\* with size s each make n * s.
C30_StatsSumDeclaredSizes ==
    get_cache_stats(metadata_cache["A"], files).total_size
        = DeclaredSize(metadata_cache["A"])

----------------------------------------------------------------------------
\* Properties of the Parser (under SpecParser)

\* the LLM was called for the last extraction
LLMCalled == llm_client /\ last.sections # <<>>

FieldOf(name) == IF name = "objective" THEN "objectives" ELSE name

\* C29: when the LLM's response lacks the opening or the closing tag of a
\* field, that field of the returned ExtractedInfo is None (authors: the empty
\* list), every other field holds the text between its own tags, and the
\* extraction returns.
C29_MissingTagNullField ==
    (last.op = "extract" /\ LLMCalled /\ last.answer.kind = "text") =>
        /\ last.info.form = "ExtractedInfo"
        /\ \A name \in TagNames :
              LET field == last.info.fields[FieldOf(name)]
              IN  IF name \in DOMAIN last.answer.broken
                  THEN IF name = "authors" THEN field = List(<<>>) ELSE field = None
                  ELSE IF name = "authors" THEN field = List(<<<<"Ann">>, <<"Bob">>>>)
                  ELSE field = <<name>>

\* a response in which the title lacks its closing tag and the authors are
\* absent, while the abstract is tagged
C29_Witness ==
    /\ last.op = "extract"
    /\ LLMCalled
    /\ last.answer.kind = "text"
    /\ DOMAIN last.answer.broken = {"title", "authors"}
    /\ last.answer.broken["title"] = "no_end"
    /\ last.info.form = "ExtractedInfo"
    /\ last.info.fields.title = None
    /\ last.info.fields.abstract = <<"abstract">>

----------------------------------------------------------------------------
\* Properties of the Cache Manager's loading (under SpecLoad)

\* C26: when loading metadata.json fails (the file cannot be read, is no JSON
\* object, or has a row that is no dict), the constructor still returns and
\* the new Cache Manager's index is empty: no row of the file is in it.
C26_FailedLoadIsEmpty ==
    (/\ last.op = "construct"
     /\ \/ ~metadata_file.readable
        \/ metadata_file.json # "dict"
        \/ \E i \in DOMAIN metadata_file.rows : ~metadata_file.rows[i].is_dict)
    => metadata_cache[last.mgr] = EmptyDict

----------------------------------------------------------------------------
\* Properties of one download attempt (under SpecAttempt)

\* C27: the content of an attempt whose request succeeded is accepted as a PDF
\* if and only if the content-type header contains "pdf" or the body starts
\* with %PDF; when neither holds the attempt ends in the validation error.
C27_EitherSignalSuffices ==
    (last.op = "attempt" /\ last.exchange.network # "net") =>
        LET declared == last.exchange.content_type \in {"application/pdf", "Application/PDF"}
            magic == /\ Len(last.exchange.content) >= 4
                     /\ SubSeq(last.exchange.content, 1, 4) = <<"%", "P", "D", "F">>
        IN  (last.ret.error # "invalid PDF content type") <=> (declared \/ magic)

\* an attempt accepted on the magic bytes alone, and written to the directory
C27_Witness ==
    /\ last.op = "attempt"
    /\ last.exchange.network = "ok"
    /\ last.exchange.content_type = "text/html"
    /\ last.exchange.content = <<"%", "P", "D", "F", "-", "1">>
    /\ last.ret.success
    /\ exists(files, _generate_output_path(last.url))

----------------------------------------------------------------------------
\* Properties of the BM25 scores (under SpecRank)

\* document k of the last ranking shares no token with the query
SharesNoToken(k) ==
    \A i \in DOMAIN last.papers[k] : \A j \in DOMAIN last.query :
       last.papers[k][i] # last.query[j]

\* C28: in every candidate pool, a record whose tokens are exactly the query's
\* tokens has a BM25 score strictly greater than the score of any record of
\* the pool that shares no token with the query, pools of two records
\* included.
C28_ExactMatchOutscores ==
    last.op = "rank" =>
        \A k, m \in DOMAIN last.papers :
           (last.papers[k] = last.query /\ SharesNoToken(m)) =>
              last.scores[k] > last.scores[m]

\* ---------------------------------------------------------------------------
\* C31: Retriever.search returns at most top_k records in the final
\* original_query sequence.
C31_FinalWithinTopK ==
    (found # EmptyDict /\ ~found.result.raised)
        => Len(found.result.original_query) <= top_k

\* ---------------------------------------------------------------------------
\* C32: a destination file exists only if some fetch for it completed
\* successfully.  A download_paper call that returns failure leaves no file at
\* its destination path, so no file of the directory is a truncated artifact a
\* later call would be skipped on.
C32_FailedFetchLeavesNoFile ==
    /\ (last.op = "fetch" /\ ~last.ret.success)
           => ~exists(files, _generate_output_path(last.url))
    /\ \A path \in DOMAIN files : files[path] # "partial"

\* ---------------------------------------------------------------------------
\* C33: reloading the index from disk preserves every entry's download time.
\* A Cache Manager constructed on an index holds each entry with the
\* downloaded_date the index records, so that cleanup measures the entry's age
\* from its original download.
C33_ReloadKeepsDownloadTime ==
    [][last'.op = "construct"
       => \A p \in DOMAIN metadata_file :
             /\ p \in DOMAIN metadata_cache'[last'.mgr]
             /\ metadata_cache'[last'.mgr][p].downloaded_date
                    = metadata_file[p].downloaded_date]_vars

\* ---------------------------------------------------------------------------
\* the order of the steps of one process_paper run
StepOrder ==
    <<"check cache", "download", "register", "processing", "parse", "extract",
      "citations", "extracted">>

\* the steps of `names` the run has taken
Took(names) == \A n \in names : \E i \in DOMAIN last.steps : last.steps[i] = n

\* C34: within one process_paper run the steps occur in the order cache check,
\* download, register, status processing, parse pages, extract structure,
\* extract citations, status extracted with the extraction as payload.  The
\* entry is registered only after the download succeeded (the artifact is at
\* the path the entry names), and it is extracted only when parsing and
\* extraction completed (with their result as its payload).
C34_StepsInOrder ==
    last.op = "run"
       => /\ last.steps = SubSeq(StepOrder, 1, Len(last.steps))
          /\ Took({"register"})
                => /\ last.paper_id \in DOMAIN metadata_cache["A"]
                   /\ metadata_cache["A"][last.paper_id].file_path
                         = _generate_output_path(last.url)
                   /\ exists(files, _generate_output_path(last.url))
          /\ (Took({"register"}) /\ metadata_cache["A"][last.paper_id].status = "extracted")
                => /\ Took({"parse", "extract", "citations", "extracted"})
                   /\ last.info.form = "ExtractedInfo"
                   /\ stored_info(metadata_cache["A"][last.paper_id])
                         = _convert_to_dict(last.info)

\* C34 happens: a run went through all eight steps and returned success
C34_Witness ==
    /\ last.op = "run"
    /\ last.pc = "done"
    /\ last.steps = StepOrder
    /\ last.ret.success
    /\ metadata_cache["A"][last.paper_id].status = "extracted"

\* ---------------------------------------------------------------------------
\* C35: in a batch download no two workers write the same destination file at
\* the same time, even when two papers of the batch carry the same URL.  Two
\* tasks with the same output_path are never both in the download loop, and at
\* most one of them fetches and writes the artifact.
C35_OneWriterPerFile ==
    \A s, t \in DOMAIN tasks :
       (s # t /\ tasks[s].output_path = tasks[t].output_path)
          => /\ ~(tasks[s].pc = "attempt" /\ tasks[t].pc = "attempt")
             /\ ~(tasks[s].fetched /\ tasks[t].fetched)

\* ---------------------------------------------------------------------------
\* C36: when two Cache Managers work on the same cache directory, an entry
\* registered or updated through one of them is never lost from the on-disk
\* index by a later mutation through the other: a register_pdf or an
\* update_metadata leaves every row of metadata.json but its own paper's as it
\* was.
C36_OtherRowsSurvive ==
    [][last'.op \in {"register", "update"}
       => \A p \in DOMAIN metadata_file \ {last'.paper_id} :
             /\ p \in DOMAIN metadata_file'
             /\ metadata_file'[p] = metadata_file[p]]_vars

\* ---------------------------------------------------------------------------
\* the papers of `papers` whose index is in `indices`, in input order
RECURSIVE Selected(_, _, _)
Selected(papers, indices, i) ==
    IF i > Len(papers) THEN <<>>
    ELSE (IF i \in indices THEN <<papers[i]>> ELSE <<>>) \o Selected(papers, indices, i + 1)

\* the later duplicates of a pool by a key: the records that have a value for the
\* key which an earlier record has too
LaterDuplicates(papers, key) ==
    {i \in DOMAIN papers :
        /\ Truthy(papers[i][key])
        /\ \E j \in 1..(i - 1) : papers[j][key] = papers[i][key]}

\* C37: deduplication by a key removes a record only when an earlier record of
\* the pool has the same value for that key.  The output is the input with
\* exactly the later duplicates removed, in input order; a record whose URL or
\* title is empty or absent stays.
C37_DedupRemovesOnlyDuplicates ==
    last.op = "deduplicate"
       => last.unique = Selected(last.papers,
                                 DOMAIN last.papers \ LaterDuplicates(last.papers, last.key),
                                 1)

\* ---------------------------------------------------------------------------
\* the indices of the papers the similarity pass kept
KeptIndices ==
    {i \in DOMAIN last.papers : \E k \in DOMAIN last.unique : last.unique[k] = last.papers[i]}

\* embeddings are available: the service answered with one at least
HasEmbeddings ==
    \E k \in DOMAIN last.embeddings : last.embeddings[k] # <<>>

\* C38: when the similarity pass runs, no two records of its output have a
\* title similarity above the threshold, every removed record is above the
\* threshold with an earlier-indexed record that is kept, and the kept records
\* are in input order; without embeddings the pool is returned unchanged.
C38_SimilarityPass ==
    last.op = "similarity"
       => IF HasEmbeddings
          THEN /\ \A i, j \in KeptIndices :
                     i < j => ~above_threshold(last.embeddings[i], last.embeddings[j])
               /\ \A j \in DOMAIN last.papers \ KeptIndices :
                     \E i \in KeptIndices :
                        i < j /\ above_threshold(last.embeddings[i], last.embeddings[j])
               /\ last.unique = Selected(last.papers, KeptIndices, 1)
          ELSE last.unique = last.papers

\* C38 happens: the pass removed a paper that resembles an earlier one and kept
\* a later paper that resembles the removed one only
C38_Witness ==
    /\ last.op = "similarity"
    /\ HasEmbeddings
    /\ KeptIndices = {1, 3}
    /\ above_threshold(last.embeddings[1], last.embeddings[2])
    /\ above_threshold(last.embeddings[2], last.embeddings[3])

\* ---------------------------------------------------------------------------
\* the entries of an index that are extracted
ExtractedIn(cache) == {p \in DOMAIN cache : cache[p].status = "extracted"}

\* C39: whenever process_paper returns success, the index holds an entry for the
\* paper's content key with status extracted whose payload holds the extraction
\* that call returned; whenever it returns failure, the call has marked no
\* entry extracted.
C39_SuccessMeansExtracted ==
    [][(last'.op = "process" /\ last'.ret.raises = "")
       => IF last'.ret.success
          THEN /\ last'.paper_id \in ExtractedIn(metadata_cache'["A"])
               /\ last'.ret.extracted_info.form # "None"
               /\ stored_info(metadata_cache'["A"][last'.paper_id])
                     = _convert_to_dict(last'.ret.extracted_info)
          ELSE ExtractedIn(metadata_cache'["A"]) \subseteq ExtractedIn(metadata_cache["A"])]_vars

====
